---------------------------- MODULE Spec2Model ----------------------------
(***************************************************************************)
(* Offline-first synchronisation layer of the SafetyFirst EHS service      *)
(* worker (src/public/sw.js): the offline mutation queue, the conflict     *)
(* detector and resolver, and the sync orchestrator.                       *)
(***************************************************************************)
EXTENDS Integers, Sequences, FiniteSets, TLC

VARIABLES
    call,      \* a direct call of one of the pure functions: [fn, args, result]
    store,     \* IndexedDB object store 'pendingRequests': id -> record
    now,       \* the last value Date.now() returned
    acks,      \* the 202 responses handleMutationRequest gave, in order
    pass,      \* trigger -> its run of syncPendingRequestsWithConflictResolution()
    passes,    \* number of passes started so far
    replays,   \* id -> number of replay HTTP calls issued for it, over all passes
    accepted,  \* ids of the replays the server answered 2xx, in order
    settled,   \* ids whose replay ended 2xx/409 or that were conflict-skipped
    cache      \* the API cache, and the background refreshes in flight

vars == <<call, store, now, acks, pass, passes, replays, accepted, settled, cache>>

syncVars == <<store, now, acks, pass, passes, replays, accepted, settled, cache>>

-----------------------------------------------------------------------------
(* JavaScript values, as far as the queue and the merge look at them.      *)

Undefined == [t |-> "undefined"]
Null == [t |-> "null"]
Num(n) == [t |-> "number", v |-> n]
Str(s) == [t |-> "string", v |-> s]
Arr(s) == [t |-> "array", v |-> s]
Obj(f) == [t |-> "object", v |-> f]

\* The outcome of an evaluation that throws a TypeError.
TypeError == [t |-> "TypeError"]

\* typeof x
TypeOf(x) ==
    IF x.t \in {"null", "array", "object"} THEN "object"
    ELSE IF x.t = "NaN" THEN "number"
    ELSE x.t

\* x === undefined || x === null
Nullish(x) == x.t \in {"undefined", "null"}

NoProps == [k \in {} |-> Undefined]

\* The own enumerable properties of x, as { ...x } and Object.entries(x) see
\* them: the fields of an object, the index properties "0", "1", ... of an
\* array, none for a number, null or undefined.
OwnProps(x) ==
    CASE x.t = "object" -> x.v
      [] x.t = "array" ->
            [k \in {ToString(i - 1) : i \in 1..Len(x.v)} |->
                x.v[CHOOSE i \in 1..Len(x.v) : ToString(i - 1) = k]]
      [] OTHER -> NoProps

\* Object.prototype, as property lookups and spreads see it here: an object
\* with no enumerable own property.
ObjectPrototype == Obj(NoProps)

\* x[k], for an x that is neither null nor undefined: the own property, else
\* the prototype for the inherited accessor "__proto__", else undefined.
GetProp(x, k) ==
    IF k \in DOMAIN OwnProps(x) THEN OwnProps(x)[k]
    ELSE IF k = "__proto__" THEN ObjectPrototype
    ELSE Undefined

\* The own keys of o after o[k] = value for each k in keys: assigning to
\* "__proto__" on an object without that own property runs the inherited
\* setter and creates no own property.
Assigned(o, keys) ==
    DOMAIN o \cup (keys \ (IF "__proto__" \in DOMAIN o THEN {} ELSE {"__proto__"}))

-----------------------------------------------------------------------------
(* mergeObjects, sw.js 429-441.                                            *)

\* A plausible slip: the result starts empty instead of from { ...server }.
RECURSIVE mergeObjectsNoSpread(_, _)
mergeObjectsNoSpread(server, client) ==
    IF Nullish(client) THEN TypeError
    ELSE
      LET base == NoProps
          ents == OwnProps(client)
          set == {k \in DOMAIN ents : ~Nullish(ents[k])}
          plain(k) == ents[k].t = "object"
          throws == \E k \in set : plain(k) /\ Nullish(server)
          rec == {k \in set : plain(k) /\ ~Nullish(server)
                                /\ TypeOf(GetProp(server, k)) = "object"}
          sub == [k \in rec |-> mergeObjectsNoSpread(GetProp(server, k), ents[k])]
      IN  IF throws \/ \E k \in rec : sub[k] = TypeError
          THEN TypeError
          ELSE Obj([k \in Assigned(base, set) |->
                      IF k \in rec THEN sub[k]
                      ELSE IF k \in set THEN ents[k]
                      ELSE base[k]])

RECURSIVE mergeObjects(_, _)
mergeObjects(server, client) ==
    IF Nullish(client) THEN TypeError            \* Object.entries(null) throws
    ELSE
      LET base == OwnProps(server)                \* { ...server }
          ents == OwnProps(client)                \* Object.entries(client)
          \* line 432: value !== undefined && value !== null
          set == {k \in DOMAIN ents : ~Nullish(ents[k])}
          \* line 433, left to right: typeof value === 'object' && !Array.isArray(value)
          plain(k) == ents[k].t = "object"
          \* ... && typeof server[key] === 'object': server[key] is evaluated
          \* only for a plain client value, and throws on a null server
          throws == \E k \in set : plain(k) /\ Nullish(server)
          rec == {k \in set : plain(k) /\ ~Nullish(server)
                                /\ TypeOf(GetProp(server, k)) = "object"}
          sub == [k \in rec |-> mergeObjects(GetProp(server, k), ents[k])]
      IN  IF throws \/ \E k \in rec : sub[k] = TypeError
          THEN TypeError
          ELSE Obj([k \in Assigned(base, set) |->
                      IF k \in rec THEN sub[k]
                      ELSE IF k \in set THEN ents[k]
                      ELSE base[k]])

-----------------------------------------------------------------------------
(* Policy table and URL helpers, sw.js 47-54 and 443-457.  A URL is the    *)
(* sequence of its path segments; HexIds are the segments that are 24      *)
(* hexadecimal digits.                                                     *)

CONFLICT_STRATEGIES ==
    ("incidents" :> "server-wins") @@ ("action-items" :> "merge") @@
    ("inspections" :> "client-wins-draft") @@ ("observations" :> "client-wins") @@
    ("default" :> "server-wins")

HexIds == {"5f1d7e0a9b3c4d2e8f6a1b0c", "5f1d7e0a9b3c4d2e8f6a1b0d"}

\* url.match(/\/api\/([^/]+)/): the segment after the first "api" segment
\* that has one.
extractEntityType(url) ==
    LET at == {i \in 1..(Len(url) - 1) : url[i] = "api"}
    IN  IF at = {} THEN "unknown"
        ELSE url[(CHOOSE i \in at : \A j \in at : i <= j) + 1]

\* url.match(/\/([a-f0-9]{24})(?:\/|$)/i): the first id-shaped segment, "" for null.
extractEntityId(url) ==
    LET at == {i \in 1..Len(url) : url[i] \in HexIds}
    IN  IF at = {} THEN ""
        ELSE url[CHOOSE i \in at : \A j \in at : i <= j]

getConflictStrategy(url) ==
    LET entityType == extractEntityType(url)
    IN  IF entityType \in DOMAIN CONFLICT_STRATEGIES
        THEN CONFLICT_STRATEGIES[entityType]
        ELSE CONFLICT_STRATEGIES["default"]

-----------------------------------------------------------------------------
(* resolveConflict, sw.js 408-427.  A resolution is { skip, reason,        *)
(* resolvedBody } with the absent field undefined; a throwing mergeObjects *)
(* makes the call throw.                                                   *)

Skip(reason) == [skip |-> TRUE, reason |-> reason, resolvedBody |-> Undefined]
Proceed(body) == [skip |-> FALSE, reason |-> "", resolvedBody |-> body]

\* conflict.serverData?.status
ServerStatus(conflict) ==
    IF Nullish(conflict.serverData) THEN Undefined
    ELSE GetProp(conflict.serverData, "status")

\* A plausible slip: the draft gate inverted.
resolveConflictDraftInverted(pendingReq, conflict) ==
    LET strategy == IF pendingReq.conflictStrategy # ""
                    THEN pendingReq.conflictStrategy
                    ELSE CONFLICT_STRATEGIES["default"]
    IN  CASE strategy = "server-wins" -> Skip("Server data is newer")
          [] strategy = "client-wins" -> Proceed(pendingReq.body)
          [] strategy = "client-wins-draft" ->
                IF ServerStatus(conflict) # Str("draft")
                THEN Proceed(pendingReq.body)
                ELSE Skip("Server record no longer draft")
          [] strategy = "merge" ->
                LET merged == mergeObjects(conflict.serverData, pendingReq.body)
                IN  IF merged = TypeError THEN TypeError ELSE Proceed(merged)
          [] OTHER -> Skip("Unknown strategy")

resolveConflict(pendingReq, conflict) ==
    LET strategy == IF pendingReq.conflictStrategy # ""
                    THEN pendingReq.conflictStrategy
                    ELSE CONFLICT_STRATEGIES["default"]
    IN  CASE strategy = "server-wins" -> Skip("Server data is newer")
          [] strategy = "client-wins" -> Proceed(pendingReq.body)
          [] strategy = "client-wins-draft" ->
                IF ServerStatus(conflict) = Str("draft")
                THEN Proceed(pendingReq.body)
                ELSE Skip("Server record no longer draft")
          [] strategy = "merge" ->
                LET merged == mergeObjects(conflict.serverData, pendingReq.body)
                IN  IF merged = TypeError THEN TypeError ELSE Proceed(merged)
          [] OTHER -> Skip("Unknown strategy")

-----------------------------------------------------------------------------
(* Requests and queue records, sw.js 178-197.                              *)

\* JSON.parse on the request texts of the model; any other text is not JSON.
JsonTable ==
    ("{\"title\":9}" :> Obj([title |-> Num(9)])) @@
    ("{\"title\":9,\"notes\":null}" :> Obj([title |-> Num(9), notes |-> Null])) @@
    ("{\"loc\":{\"y\":9}}" :> Obj([loc |-> Obj([y |-> Num(9)])])) @@
    ("null" :> Null)

SyntaxError == [t |-> "SyntaxError"]

JsonParse(text) == IF text \in DOMAIN JsonTable THEN JsonTable[text] ELSE SyntaxError

\* A plausible slip: the body is always stored as raw text.
ParsedBodyAlwaysRaw(text) == Obj([rawBody |-> Str(text)])

\* lines 180-185: try { JSON.parse(body) } catch { { rawBody: body } }
ParsedBody(text) ==
    IF JsonParse(text) = SyntaxError THEN Obj([rawBody |-> Str(text)])
    ELSE JsonParse(text)

\* JSON.stringify(value), as the JSON value the text denotes: a property
\* holding undefined is left out, an array element holding undefined is null.
RECURSIVE JsonStringify(_)
JsonStringify(x) ==
    CASE x.t = "object" ->
            Obj([k \in {k \in DOMAIN x.v : x.v[k].t # "undefined"} |-> JsonStringify(x.v[k])])
      [] x.t = "array" ->
            Arr([i \in 1..Len(x.v) |->
                    IF x.v[i].t = "undefined" THEN Null ELSE JsonStringify(x.v[i])])
      [] OTHER -> x

\* lines 187-197; t1 and t2 are the two reads of Date.now(), rnd the random suffix.
PendingRequest(request, t1, rnd, t2) ==
    [id |-> <<t1, rnd>>,
     url |-> request.url,
     method |-> request.method,
     headers |-> request.headers,
     body |-> ParsedBody(request.body),
     timestamp |-> t2,
     retryCount |-> 0,
     entityType |-> extractEntityType(request.url),
     conflictStrategy |-> getConflictStrategy(request.url)]

-----------------------------------------------------------------------------
(* The pendingRequests object store (keyPath 'id'), sw.js 522-533.  The    *)
(* key is the string `${t1}-${suffix}`; keys of one length order by t1,    *)
(* then by suffix.                                                         *)

EmptyStore == [k \in {} |-> Undefined]

KeyLess(a, b) == a[1] < b[1] \/ (a[1] = b[1] /\ a[2] < b[2])

\* A plausible slip: the store keeps one record for each URL.
StoreAddCoalescing(s, rec) ==
    LET others == {k \in DOMAIN s : s[k].url # rec.url}
    IN  [k \in others \cup {rec.id} |-> IF k = rec.id THEN rec ELSE s[k]]

\* objectStore.add(record): a record whose key is present is not stored.
StoreAdd(s, rec) == IF rec.id \in DOMAIN s THEN s ELSE (rec.id :> rec) @@ s

\* A plausible slip: the write-back stamps the record anew.
StorePutRestamped(s, rec) == (rec.id :> [rec EXCEPT !.timestamp = @ + 1]) @@ s

\* objectStore.put(record): inserts, or replaces the record of that key.
StorePut(s, rec) == (rec.id :> rec) @@ s

\* A plausible slip: clear() called where delete(id) is meant.
StoreClear(s, id) == [k \in {} |-> s[k]]

\* A plausible slip: the delete is never carried out.
StoreDeleteNothing(s, id) == s

\* objectStore.delete(key)
StoreDelete(s, id) == [k \in DOMAIN s \ {id} |-> s[k]]

\* A plausible slip: the records whose count stands one below the ceiling
\* are taken as given up and are not loaded.
StoreGetAllRetriable(s) ==
    LET live == {k \in DOMAIN s : s[k].retryCount < 4}
        rank(k) == 1 + Cardinality({j \in live : KeyLess(j, k)})
    IN  [p \in 1..Cardinality(live) |-> s[CHOOSE k \in live : rank(k) = p]]

\* objectStore.getAll(): the records in ascending key order.
StoreGetAll(s) ==
    LET rank(k) == 1 + Cardinality({j \in DOMAIN s : KeyLess(j, k)})
    IN  [p \in 1..Cardinality(DOMAIN s) |-> s[CHOOSE k \in DOMAIN s : rank(k) = p]]

-----------------------------------------------------------------------------
(* checkForConflict, sw.js 383-406.                                        *)

NaN == [t |-> "NaN"]

Iso1 == "1970-01-01T00:00:00.001Z"
Iso2 == "1970-01-01T00:00:00.002Z"
Iso3 == "1970-01-01T00:00:00.003Z"

IsoTable == (Iso1 :> 1) @@ (Iso2 :> 2) @@ (Iso3 :> 3)

\* new Date(x).getTime()
DateGetTime(x) ==
    CASE x.t = "string" -> IF x.v \in DOMAIN IsoTable THEN Num(IsoTable[x.v]) ELSE NaN
      [] x.t = "number" -> x
      [] x.t = "null" -> Num(0)
      [] OTHER -> NaN

\* the truthiness a || b tests
Truthy(x) ==
    CASE Nullish(x) -> FALSE
      [] x.t = "NaN" -> FALSE
      [] x.t = "number" -> x.v # 0
      [] x.t = "string" -> x.v # ""
      [] OTHER -> TRUE

NoConflict ==
    [hasConflict |-> FALSE, serverData |-> Undefined,
     serverTimestamp |-> Undefined, clientTimestamp |-> Undefined]

\* line 385 returns before any request is made
ProbeSent(pendingReq) == extractEntityId(pendingReq.url) # ""

\* line 388: pendingReq.url.replace(/\/[^/]+$/, `/${entityId}`)
ProbeUrl(pendingReq) ==
    [pendingReq.url EXCEPT ![Len(pendingReq.url)] = extractEntityId(pendingReq.url)]

\* A plausible slip: a probe that fails is taken for a conflict.
checkForConflictFailsClosed(pendingReq, probe) ==
    LET unknown == [hasConflict |-> TRUE, serverData |-> Undefined,
                    serverTimestamp |-> NaN,
                    clientTimestamp |-> Num(pendingReq.timestamp)]
    IN  IF ~ProbeSent(pendingReq) THEN NoConflict
        ELSE IF probe.kind = "throw" THEN unknown
        ELSE IF ~probe.ok THEN unknown
        ELSE IF probe.json = SyntaxError \/ Nullish(probe.json) THEN NoConflict
        ELSE
          LET serverData == probe.json
              stamp == IF Truthy(GetProp(serverData, "updatedAt"))
                       THEN GetProp(serverData, "updatedAt")
                       ELSE GetProp(serverData, "createdAt")
              serverTimestamp == DateGetTime(stamp)
          IN  IF serverTimestamp # NaN /\ serverTimestamp.v > pendingReq.timestamp
              THEN [hasConflict |-> TRUE, serverData |-> serverData,
                    serverTimestamp |-> serverTimestamp,
                    clientTimestamp |-> Num(pendingReq.timestamp)]
              ELSE NoConflict

\* A plausible slip: the comparison of line 398 not strict.
checkForConflictNotStrict(pendingReq, probe) ==
    IF ~ProbeSent(pendingReq) THEN NoConflict
    ELSE IF probe.kind = "throw" THEN NoConflict
    ELSE IF ~probe.ok THEN NoConflict
    ELSE IF probe.json = SyntaxError \/ Nullish(probe.json) THEN NoConflict
    ELSE
      LET serverData == probe.json
          stamp == IF Truthy(GetProp(serverData, "updatedAt"))
                   THEN GetProp(serverData, "updatedAt")
                   ELSE GetProp(serverData, "createdAt")
          serverTimestamp == DateGetTime(stamp)
      IN  IF serverTimestamp # NaN /\ serverTimestamp.v >= pendingReq.timestamp
          THEN [hasConflict |-> TRUE, serverData |-> serverData,
                serverTimestamp |-> serverTimestamp,
                clientTimestamp |-> Num(pendingReq.timestamp)]
          ELSE NoConflict

\* probe is what the GET of line 388 brings: it throws, or it is a response
\* { ok, json } whose json() is a value or throws a SyntaxError.
checkForConflict(pendingReq, probe) ==
    IF ~ProbeSent(pendingReq) THEN NoConflict
    ELSE IF probe.kind = "throw" THEN NoConflict
    ELSE IF ~probe.ok THEN NoConflict
    ELSE IF probe.json = SyntaxError \/ Nullish(probe.json) THEN NoConflict
    ELSE
      LET serverData == probe.json
          stamp == IF Truthy(GetProp(serverData, "updatedAt"))
                   THEN GetProp(serverData, "updatedAt")
                   ELSE GetProp(serverData, "createdAt")
          serverTimestamp == DateGetTime(stamp)
      IN  IF serverTimestamp # NaN /\ serverTimestamp.v > pendingReq.timestamp
          THEN [hasConflict |-> TRUE, serverData |-> serverData,
                serverTimestamp |-> serverTimestamp,
                clientTimestamp |-> Num(pendingReq.timestamp)]
          ELSE NoConflict

-----------------------------------------------------------------------------
(* Direct calls of the pure functions on bounded inputs.                   *)

Pending == [t |-> "pending"]

PartialFns(K, V) == UNION {[S -> V] : S \in SUBSET K}

ServerInner == {Obj(f) : f \in PartialFns({"x", "y"}, {Num(1), Num(2)})}
ClientInner == {Obj(f) : f \in PartialFns({"x", "y"}, {Num(9), Null})}
ClientDeep == Obj([x |-> Obj([z |-> Num(9)])])
ServerVals == {Null, Num(1), Arr(<<Num(1)>>)} \cup ServerInner
ClientVals == {Null, Undefined, Num(9), Arr(<<Num(9)>>), ClientDeep} \cup ClientInner

ServerObjs == {Obj(f) : f \in PartialFns({"a", "b"}, ServerVals)}
ClientObjs ==
    {Obj(f) : f \in PartialFns({"a", "b"}, ClientVals)}
    \cup {Obj("__proto__" :> Obj([x |-> Num(9)])), Obj("__proto__" :> Num(9))}

MergeCalls ==
    {[fn |-> "mergeObjects", args |-> <<s, c>>, result |-> Pending] :
        s \in ServerObjs, c \in ClientObjs}

\* Server snapshots of an entity: its status, its timestamps and a field.
Snapshots ==
    {Obj(f) : f \in PartialFns({"status"}, {Str("draft"), Str("approved"), Str("Draft"), Null})}
    \cup {Obj([status |-> st, updatedAt |-> Str(Iso2), loc |-> Obj([x |-> Num(1), y |-> Num(2)])]) :
            st \in {Str("draft"), Str("approved")}}

TheHeaders == [authorization |-> "Bearer t"]

ResolveRequests ==
    {[url |-> <<"api", e, "5f1d7e0a9b3c4d2e8f6a1b0c">>, method |-> "PUT",
      headers |-> TheHeaders, body |-> b] :
        e \in {"incidents", "action-items", "inspections", "observations", "permits"},
        b \in DOMAIN JsonTable \cup {"not json"}}

ResolveCalls ==
    UNION {
      {[fn |-> "resolveConflict",
        args |-> <<[PendingRequest(r, 1, 1, 1) EXCEPT !.conflictStrategy = st],
                   [hasConflict |-> TRUE, serverData |-> sd,
                    serverTimestamp |-> Num(2), clientTimestamp |-> 1]>>,
        result |-> Pending] :
          sd \in Snapshots, st \in {getConflictStrategy(r.url), "", "newest-wins"}} :
      r \in ResolveRequests}

\* Server entities as a probe reads them: with and without updatedAt and
\* createdAt, one updatedAt that is no date.
StampedEntities ==
    {Obj(f) : f \in PartialFns({"updatedAt", "createdAt"},
                               {Str(Iso1), Str(Iso2), Str(Iso3), Null, Str("soon")})}

ConflictProbes ==
    {[kind |-> "throw"], [kind |-> "response", ok |-> TRUE, json |-> SyntaxError]}
    \cup {[kind |-> "response", ok |-> ok, json |-> e] :
            ok \in BOOLEAN, e \in StampedEntities}

ConflictRequests ==
    {[url |-> u, method |-> "PUT", headers |-> TheHeaders, body |-> "{\"title\":9}"] :
        u \in {<<"api", "incidents", "5f1d7e0a9b3c4d2e8f6a1b0c">>, <<"api", "organization">>}}

ConflictCalls ==
    {[fn |-> "checkForConflict",
      args |-> <<PendingRequest(r, t, 1, t), probe>>,
      result |-> Pending] :
        r \in ConflictRequests, t \in 1..3, probe \in ConflictProbes}

CallCheckForConflict ==
    /\ call.fn = "checkForConflict"
    /\ call.result = Pending
    /\ call' = [call EXCEPT !.result = checkForConflict(call.args[1], call.args[2])]
    /\ UNCHANGED syncVars

CallMergeObjects ==
    /\ call.fn = "mergeObjects"
    /\ call.result = Pending
    /\ call' = [call EXCEPT !.result = mergeObjects(call.args[1], call.args[2])]
    /\ UNCHANGED syncVars

CallResolveConflict ==
    /\ call.fn = "resolveConflict"
    /\ call.result = Pending
    /\ call' = [call EXCEPT !.result = resolveConflict(call.args[1], call.args[2])]
    /\ UNCHANGED syncVars

-----------------------------------------------------------------------------
(* Bounds and inputs of the queue model.                                   *)

MaxTime == 1        \* Date.now() stays within 0..MaxTime
MaxQueued == 2      \* requests queued in one behaviour
MaxPasses == 2      \* sync passes started in one behaviour

Suffixes == {1, 2}  \* the random suffixes of ids

E1 == "5f1d7e0a9b3c4d2e8f6a1b0c"

Request(method, url, body) ==
    [url |-> url, method |-> method, headers |-> TheHeaders, body |-> body]

\* The mutating API requests the application makes.
Requests ==
    {Request("POST", <<"api", "incidents">>, "{\"title\":9}"),
     Request("PUT", <<"api", "incidents", E1>>, "{\"title\":9}"),
     Request("PUT", <<"api", "action-items", E1>>, "{\"loc\":{\"y\":9}}"),
     Request("PUT", <<"api", "inspections", E1>>, "{\"title\":9}"),
     Request("PUT", <<"api", "observations", E1>>, "{\"title\":9}"),
     Request("PUT", <<"api", "organization">>, "{\"title\":9}"),
     Request("DELETE", <<"api", "incidents", E1>>, "")}

Response(status) == [kind |-> "response", status |-> status]
Throw == [kind |-> "throw"]

\* What a replay call can bring.
ReplayOutcomes == {Response(200), Response(409), Response(400), Response(500), Throw}

Entity(status, stamp) ==
    Obj([status |-> Str(status), updatedAt |-> Str(stamp),
         loc |-> Obj([x |-> Num(1), y |-> Num(2)])])

\* What a conflict probe can bring.
ProbeOutcomes ==
    {Throw,
     [kind |-> "response", ok |-> FALSE, json |-> SyntaxError],
     [kind |-> "response", ok |-> TRUE, json |-> Entity("draft", Iso3)],
     [kind |-> "response", ok |-> TRUE, json |-> Entity("approved", Iso3)],
     [kind |-> "response", ok |-> TRUE, json |-> Entity("draft", Iso1)]}

-----------------------------------------------------------------------------
(* handleMutationRequest, sw.js 171-223.                                   *)

UsedIds == {acks[i].pendingId : i \in 1..Len(acks)}

\* lines 172-176: the client is online and the direct fetch brought a
\* response, which goes back to the caller whatever its status; nothing is
\* read from the clock and nothing is queued.
HandleMutationOnline ==
    /\ UNCHANGED vars

\* lines 207-222: the message posted to the application and the 202 response,
\* kept together with the request they answer.
QueuedAnswer(request, pendingRequest) ==
    [status |-> 202, offline |-> TRUE,
     pendingId |-> pendingRequest.id,
     queuedAt |-> pendingRequest.timestamp,
     request |-> request,
     message |-> [type |-> "OFFLINE_REQUEST_QUEUED",
                  requestId |-> pendingRequest.id,
                  entityType |-> pendingRequest.entityType]]

\* lines 178-222: the client is flagged offline or the direct fetch threw.
\* The suffix is one no earlier id of the same millisecond carries.
HandleMutationQueued(request, t1, rnd, t2) ==
    LET pendingRequest == PendingRequest(request, t1, rnd, t2)
    IN  /\ now <= t1 /\ t1 <= t2
        /\ pendingRequest.id \notin UsedIds
        /\ now' = t2
        /\ store' = StoreAdd(store, pendingRequest)
        /\ acks' = Append(acks, QueuedAnswer(request, pendingRequest))
        /\ UNCHANGED <<call, pass, passes, replays, accepted, settled, cache>>

\* The direct attempt of lines 172-176 as the caller's side sees it: with
\* navigator.onLine false no fetch is made; otherwise the fetch brings a
\* response of some status or throws.
NotAttempted == [kind |-> "none"]

DirectOutcomes == {Response(200), Response(404), Response(500), Throw}

Attempts ==
    {<<TRUE, direct>> : direct \in DirectOutcomes} \cup {<<FALSE, NotAttempted>>}

\* A plausible slip: a server error on the direct attempt falls through to
\* the queue.
DirectAnsweredUnlessServerError(onLine, direct) ==
    onLine /\ direct.kind = "response" /\ direct.status < 500

\* lines 172-174: the direct fetch returned, and its response is the answer
DirectAnswered(onLine, direct) == onLine /\ direct.kind = "response"

\* The add request of line 201 ends in success or in an error event (quota,
\* a failing disk, an aborted transaction).  The handler awaits the request
\* object, which is no promise, so it goes on whatever the outcome.
WriteOutcomes == {"success", "error"}

\* lines 203-205: the host has no SyncManager ('sync' in self.registration
\* is false and the step is left out), or register() resolves, or it rejects
\* (permission denied, no active worker); the await is in no try block.
SyncOutcomes == {"absent", "registered", "rejected"}

\* What the environment does during one call.  When the direct attempt is
\* answered the handler returns at line 174, and there is no store write and
\* no registration.
Environments ==
    {<<attempt[1], attempt[2], NotAttempted.kind, NotAttempted.kind>> :
        attempt \in {a \in Attempts : DirectAnswered(a[1], a[2])}}
    \cup {<<attempt[1], attempt[2], write, sync>> :
            attempt \in {a \in Attempts : ~DirectAnswered(a[1], a[2])},
            write \in WriteOutcomes, sync \in SyncOutcomes}

\* handleMutationRequest (171-223) with its caller: call keeps the request,
\* what the environment did (onLine, the direct fetch, the store write, the
\* sync registration) and the response the caller got, Throw when the
\* handler's promise rejects.
handleMutationRequest(request, onLine, direct, write, sync, t1, rnd, t2) ==
    LET pendingRequest == PendingRequest(request, t1, rnd, t2)
        called == [fn |-> "handleMutationRequest",
                   args |-> <<request, onLine, direct, write, sync>>,
                   fetches |-> IF onLine THEN 1 ELSE 0]
    IN  IF DirectAnswered(onLine, direct)
        THEN /\ call' = [fn |-> called.fn, args |-> called.args,
                         fetches |-> called.fetches, result |-> direct]
             /\ UNCHANGED syncVars
        ELSE /\ now <= t1 /\ t1 <= t2
             /\ pendingRequest.id \notin UsedIds \cup DOMAIN store
             /\ now' = t2
             /\ store' = IF write = "success" THEN StoreAdd(store, pendingRequest) ELSE store
             /\ IF sync = "rejected"
                THEN /\ acks' = acks
                     /\ call' = [fn |-> called.fn, args |-> called.args,
                                 fetches |-> called.fetches, result |-> Throw]
                ELSE /\ acks' = Append(acks, QueuedAnswer(request, pendingRequest))
                     /\ call' = [fn |-> called.fn, args |-> called.args,
                                 fetches |-> called.fetches,
                                 result |-> [kind |-> "response", status |-> 202,
                                             body |-> [success |-> TRUE, offline |-> TRUE,
                                                       pendingId |-> pendingRequest.id,
                                                       queuedAt |-> pendingRequest.timestamp]]]
             /\ UNCHANGED <<pass, passes, replays, accepted, settled, cache>>

-----------------------------------------------------------------------------
(* syncPendingRequestsWithConflictResolution, sw.js 288-381, and its two   *)
(* callers: the 'sync' listener (282-286) and the FORCE_SYNC message       *)
(* (623-626).  pass[tr] is the activation the trigger tr started:          *)
(*   pc        "idle", "loop" (at the top of the loop body for item i),    *)
(*             "replay" (item i is about to be replayed), "summary"        *)
(*             (after the loop), "done" (returned)                         *)
(*   requests  the in-memory copies the pass loaded, i the current index   *)
(*   events    what the pass has done to the outside so far: the requests  *)
(*             it issued, the messages it posted, the notification         *)

Triggers == {"sync", "FORCE_SYNC"}

RetryCeiling == 5

NoResults == [synced |-> 0, failed |-> 0, conflicts |-> 0]

IdlePass ==
    [pc |-> "idle", requests |-> <<>>, i |-> 0, results |-> NoResults,
     conflictedRequests |-> <<>>, events |-> <<>>]

\* A plausible slip: the comparator of line 299 reversed.
compareTimestampReversed(a, b) == b.timestamp - a.timestamp

\* line 299: (a, b) => a.timestamp - b.timestamp
compareTimestamp(a, b) == a.timestamp - b.timestamp

\* requests.sort(compareTimestamp): Array.prototype.sort is stable.
SortRequests(requests) ==
    LET n == Len(requests)
        rank(k) == 1 + Cardinality({j \in 1..n :
                        \/ compareTimestamp(requests[j], requests[k]) < 0
                        \/ (compareTimestamp(requests[j], requests[k]) = 0 /\ j < k)})
    IN  [p \in 1..n |-> requests[CHOOSE k \in 1..n : rank(k) = p]]

\* A plausible slip: the method test of line 306 left out.
NeedsCheckAnyMethod(pendingReq) ==
    pendingReq.conflictStrategy # "client-wins"

\* line 306
NeedsCheck(pendingReq) ==
    pendingReq.method = "PUT" /\ pendingReq.conflictStrategy # "client-wins"

\* `continue`, or the end of the loop body: on to the next item
NextItem(p) ==
    [p EXCEPT !.i = @ + 1,
              !.pc = IF p.i + 1 > Len(p.requests) THEN "summary" ELSE "loop"]

\* A plausible slip: the catch block without results.failed++.
CaughtUncounted(p) ==
    NextItem([p EXCEPT !.requests[p.i].retryCount = @ + 1,
                       !.events = Append(@, [type |-> "console.error",
                                             id |-> p.requests[p.i].id])])

\* A plausible slip: the exception leaves the loop instead of the iteration.
CaughtLeavesLoop(p) ==
    [p EXCEPT !.requests[p.i].retryCount = @ + 1,
              !.results.failed = @ + 1,
              !.events = Append(@, [type |-> "console.error",
                                    id |-> p.requests[p.i].id]),
              !.i = Len(p.requests) + 1,
              !.pc = "summary"]

\* lines 360-364: the catch block
Caught(p) ==
    NextItem([p EXCEPT !.requests[p.i].retryCount = @ + 1,
                       !.results.failed = @ + 1,
                       !.events = Append(@, [type |-> "console.error",
                                             id |-> p.requests[p.i].id])])

\* A plausible slip: the `continue` of line 315 left out.
SkipItemFallsThrough(p) ==
    [p EXCEPT !.conflictedRequests = Append(@, p.requests[p.i].id),
              !.results.conflicts = @ + 1,
              !.pc = "replay"]

\* lines 311-315, in memory: note the skip, count it, go to the next item
SkipItem(p) ==
    NextItem([p EXCEPT !.conflictedRequests = Append(@, p.requests[p.i].id),
                       !.results.conflicts = @ + 1])

\* lines 289-302: load the queue, sort it, start the counters
SyncLoad(tr) ==
    LET requests == SortRequests(StoreGetAll(store))
    IN  /\ pass[tr].pc \in {"idle", "done"}
        /\ passes' = passes + 1
        /\ pass' = [t \in Triggers |->
                IF t = tr
                THEN [pc |-> IF Len(requests) = 0 THEN "summary" ELSE "loop",
                      requests |-> requests, i |-> 1, results |-> NoResults,
                      conflictedRequests |-> <<>>, events |-> <<>>]
                ELSE IF pass[t].pc = "done" THEN IdlePass
                ELSE pass[t]]
        /\ UNCHANGED <<call, store, now, acks, replays, accepted, settled, cache>>

\* lines 282-286
SyncEvent == SyncLoad("sync")

\* lines 623-624
ForceSyncMessage == SyncLoad("FORCE_SYNC")

\* lines 306-319: the conflict check of item i, and what its resolution does
SyncDetect(tr, probe) ==
    LET p == pass[tr]
        pendingReq == p.requests[p.i]
        conflict == checkForConflict(pendingReq, probe)
        resolution == resolveConflict(pendingReq, conflict)
        probed == IF ProbeSent(pendingReq)
                  THEN Append(p.events,
                          [type |-> "probe", method |-> "GET", id |-> pendingReq.id,
                           url |-> ProbeUrl(pendingReq),
                           headers |-> [X_Conflict_Check |-> "true"],
                           outcome |-> probe])
                  ELSE p.events
        q == [p EXCEPT !.events = probed]
    IN  /\ p.pc = "loop"
        /\ NeedsCheck(pendingReq)
        /\ IF ~conflict.hasConflict
           THEN /\ pass' = [pass EXCEPT ![tr] = [q EXCEPT !.pc = "replay"]]
                /\ UNCHANGED <<store, settled>>
           ELSE IF resolution = TypeError
           THEN /\ pass' = [pass EXCEPT ![tr] = Caught(q)]
                /\ UNCHANGED <<store, settled>>
           ELSE IF resolution.skip
           THEN /\ pass' = [pass EXCEPT ![tr] = SkipItem(q)]
                /\ store' = StoreDelete(store, pendingReq.id)
                /\ settled' = settled \cup {pendingReq.id}
           ELSE /\ pass' = [pass EXCEPT ![tr] =
                        [q EXCEPT !.pc = "replay",
                                  !.requests[p.i].body = resolution.resolvedBody]]
                /\ UNCHANGED <<store, settled>>
        /\ UNCHANGED <<call, now, acks, passes, replays, accepted, cache>>

Message(type, pendingReq) ==
    [type |-> "postMessage",
     data |-> [type |-> type, requestId |-> pendingReq.id,
               entityType |-> pendingReq.entityType]]

\* A plausible slip: a 409 counted as a rejection.
SucceededOnlyOk(outcome) ==
    outcome.kind = "response" /\ outcome.status \in 200..299

\* line 331: response.ok || response.status === 409
Succeeded(outcome) ==
    outcome.kind = "response" /\ (outcome.status \in 200..299 \/ outcome.status = 409)

\* A plausible slip: the branch of line 341 never taken, so that a server
\* error is handled as a rejection.
ServerErrorNever(outcome) == FALSE

\* line 341: response.status >= 500
ServerError(outcome) == outcome.kind = "response" /\ outcome.status >= 500

\* A plausible slip: the ceiling itself still written back.
WriteBackInclusive(s, retried) ==
    IF retried.retryCount <= RetryCeiling THEN StorePut(s, retried) ELSE s

\* A plausible slip: the write-back without the test of the ceiling.
WriteBackAlways(s, retried) == StorePut(s, retried)

\* lines 343-346: the write-back of the record whose count was increased
WriteBack(s, retried) ==
    IF retried.retryCount < RetryCeiling THEN StorePut(s, retried) ELSE s

\* A plausible slip: the failure message without the server's status.
FailedMessageNoStatus(pendingReq, outcome) ==
    [type |-> "postMessage",
     data |-> [type |-> "SYNC_FAILED",
               requestId |-> pendingReq.id,
               entityType |-> pendingReq.entityType,
               error |-> "Server returned an error"]]

\* lines 353-358
FailedMessage(pendingReq, outcome) ==
    [type |-> "postMessage",
     data |-> [type |-> "SYNC_FAILED",
               requestId |-> pendingReq.id,
               entityType |-> pendingReq.entityType,
               error |-> "Server returned " \o ToString(outcome.status)]]

\* lines 321-364: the replay call of item i and the handling of its outcome
SyncReplay(tr, outcome) ==
    LET p == pass[tr]
        pendingReq == p.requests[p.i]
        replay == [type |-> "replay", method |-> pendingReq.method, id |-> pendingReq.id,
                   url |-> pendingReq.url,
                   headers |-> ("X-Offline-Sync" :> "true") @@
                               ("X-Offline-Timestamp" :> ToString(pendingReq.timestamp)) @@
                               pendingReq.headers,
                   body |-> JsonStringify(pendingReq.body),
                   outcome |-> outcome]
        q == [p EXCEPT !.events = Append(@, replay)]
        ok == outcome.kind = "response" /\ outcome.status \in 200..299
        retried == [pendingReq EXCEPT !.retryCount = @ + 1]
    IN  /\ p.pc = "replay" \/ (p.pc = "loop" /\ ~NeedsCheck(pendingReq))
        /\ replays' = IF pendingReq.id \in DOMAIN replays
                      THEN [replays EXCEPT ![pendingReq.id] = @ + 1]
                      ELSE (pendingReq.id :> 1) @@ replays
        /\ CASE outcome.kind = "throw" ->
                  /\ pass' = [pass EXCEPT ![tr] = Caught(q)]
                  /\ UNCHANGED <<store, settled, accepted>>
             [] Succeeded(outcome) ->
                  /\ store' = StoreDelete(store, pendingReq.id)
                  /\ pass' = [pass EXCEPT ![tr] =
                        NextItem([q EXCEPT
                            !.results.synced = @ + 1,
                            !.events = Append(@, Message("SYNC_SUCCESS", pendingReq))])]
                  /\ settled' = settled \cup {pendingReq.id}
                  /\ accepted' = IF ok THEN Append(accepted, pendingReq.id) ELSE accepted
             [] ServerError(outcome) ->
                  /\ store' = WriteBack(store, retried)
                  /\ pass' = [pass EXCEPT ![tr] =
                        NextItem([q EXCEPT !.requests[p.i] = retried,
                                           !.results.failed = @ + 1])]
                  /\ UNCHANGED <<settled, accepted>>
             [] OTHER ->
                  /\ store' = StoreDelete(store, pendingReq.id)
                  /\ pass' = [pass EXCEPT ![tr] =
                        NextItem([q EXCEPT
                            !.results.failed = @ + 1,
                            !.events = Append(@, FailedMessage(pendingReq, outcome))])]
                  /\ UNCHANGED <<settled, accepted>>
        /\ UNCHANGED <<call, now, acks, passes, cache>>

\* lines 368-371: the text of the summary notification, trimmed
SummaryText(results) ==
    LET synced == IF results.synced > 0
                  THEN ToString(results.synced) \o " changes synced."
                  ELSE ""
        conflicts == IF results.conflicts > 0
                     THEN ToString(results.conflicts) \o " conflicts resolved."
                     ELSE ""
    IN  IF results.synced > 0 /\ results.conflicts > 0
        THEN synced \o " " \o conflicts
        ELSE synced \o conflicts

\* A plausible slip: only synced items raise the summary.
ShouldNotifySyncedOnly(results) == results.synced > 0

\* line 367
ShouldNotify(results) == results.synced > 0 \/ results.conflicts > 0

\* lines 367-380, and the caller's continuation: FORCE_SYNC posts the results.
\* The activation returns: its locals are gone, its results are what it
\* returned, and events keeps what the return itself emitted.
SyncSummary(tr) ==
    LET p == pass[tr]
        notified == IF ShouldNotify(p.results)
                    THEN <<[type |-> "showNotification",
                            title |-> "SafetyFirst EHS Sync",
                            body |-> SummaryText(p.results), tag |-> "sync-results"]>>
                    ELSE <<>>
        returned == IF tr = "FORCE_SYNC"
                    THEN Append(notified,
                            [type |-> "postMessage",
                             data |-> [type |-> "SYNC_COMPLETE", results |-> p.results]])
                    ELSE notified
    IN  /\ p.pc = "summary"
        /\ pass' = [pass EXCEPT ![tr] =
                [IdlePass EXCEPT !.pc = "done", !.results = p.results,
                                 !.events = returned]]
        /\ UNCHANGED <<call, store, now, acks, passes, replays, accepted, settled, cache>>

-----------------------------------------------------------------------------
(* The API cache: handleApiRequest (123-168), fetchWithTimeout (459-470),  *)
(* fetchAndCache (472-476), addCacheHeaders (478-483), createOfflineResponse *)
(* (493-498) and refreshCriticalData (585-602).  A path is the sequence of *)
(* its segments; the cache is keyed by the path.  cache.entries is the     *)
(* content of the cache, cache.background the paths whose fetchAndCache,   *)
(* started by a read and not awaited, has not ended yet; cache.keys is     *)
(* what cache.keys() returns, the keys in the order of their last put.     *)

Route(route, maxAge, priority) ==
    [route |-> route, maxAge |-> maxAge, priority |-> priority]

\* lines 29-45, in the order of the source
API_CACHE_CONFIG ==
    <<Route(<<"api", "dashboard">>, 300000, "high"),
      Route(<<"api", "incidents">>, 180000, "high"),
      Route(<<"api", "action-items">>, 180000, "high"),
      Route(<<"api", "inspections">>, 300000, "medium"),
      Route(<<"api", "training">>, 600000, "medium"),
      Route(<<"api", "documents">>, 600000, "low"),
      Route(<<"api", "users">>, 3600000, "low"),
      Route(<<"api", "observations">>, 300000, "medium"),
      Route(<<"api", "jsa">>, 600000, "low"),
      Route(<<"api", "permits">>, 300000, "medium"),
      Route(<<"api", "contractors">>, 3600000, "low"),
      Route(<<"api", "chemicals">>, 3600000, "low"),
      Route(<<"api", "claims">>, 300000, "high"),
      Route(<<"api", "inspection-templates", "library">>, 86400000, "low"),
      Route(<<"api", "organization">>, 3600000, "low")>>

\* url.pathname.startsWith(route), on whole segments
StartsWith(path, route) ==
    Len(route) <= Len(path) /\ \A i \in 1..Len(route) : path[i] = route[i]

\* lines 124-125: the first route of the table the path starts with, else
\* the default
RouteConfig(path) ==
    LET found == {i \in 1..Len(API_CACHE_CONFIG) : StartsWith(path, API_CACHE_CONFIG[i].route)}
    IN  IF found = {} THEN [maxAge |-> 60000, priority |-> "low"]
        ELSE LET first == CHOOSE i \in found : \A j \in found : i <= j
             IN  [maxAge |-> API_CACHE_CONFIG[first].maxAge,
                  priority |-> API_CACHE_CONFIG[first].priority]

Infinity == [t |-> "Infinity"]

None == [kind |-> "none"]

\* The four caches of lines 2-6 before anything is stored: entries, keys and
\* background are the API cache (its responses, the order of its keys, the
\* background refreshes in flight); static, dynamic and image are the
\* requests the other three caches hold a response for.
EmptyCache ==
    [entries |-> [k \in {} |-> None], keys |-> <<>>, background |-> {},
     static |-> {}, dynamic |-> {}, image |-> {}]

\* line 9
MAX_API_CACHE_ITEMS == 100

\* The times at which the model reads the clock: around the maxAge of
\* /api/incidents, for entries captured at 0 and at 1.
ApiTimes == {0, 1, 179999, 180000, 180001}

\* parseInt of a header written by Date.now().toString()
ParseInt(text) == CHOOSE n \in ApiTimes : ToString(n) = text

\* Math.round(age / 1000).toString(), for an age that is not negative
CacheAge(age) ==
    IF age = Infinity THEN "Infinity" ELSE ToString((age.v + 500) \div 1000)

\* lines 131-132
AgeOf(cachedResponse, t) ==
    IF "x-cached-at" \in DOMAIN cachedResponse.headers
    THEN Num(t - ParseInt(cachedResponse.headers["x-cached-at"]))
    ELSE Infinity

\* A plausible slip: an entry exactly maxAge old still counts as fresh.
FreshInclusive(age, maxAge) == age # Infinity /\ age.v <= maxAge

\* line 134: age < config.maxAge
Fresh(age, maxAge) == age # Infinity /\ age.v < maxAge

\* lines 478-483, with fromCache true
addCacheHeaders(response, age) ==
    [response EXCEPT !.headers =
        ("X-Served-From" :> "cache") @@ ("X-Cache-Age" :> CacheAge(age)) @@ @]

\* lines 493-498
createOfflineResponse(message) ==
    [kind |-> "response", status |-> 503,
     headers |-> ("Content-Type" :> "application/json"),
     body |-> [error |-> "You are offline", offline |-> TRUE, message |-> message]]

\* lines 147-155 and 595-598: the response with x-cached-at set to the clock
Timestamped(response, t) ==
    [response EXCEPT !.headers = ("x-cached-at" :> ToString(t)) @@ @]

\* cache.put(key, response): an entry under the same key is removed and the
\* new one is appended
CachePut(c, key, response) ==
    [c EXCEPT
        !.entries = [k \in DOMAIN c.entries \cup {key} |->
                        IF k = key THEN response ELSE c.entries[k]],
        !.keys = Append(SelectSeq(c.keys, LAMBDA k : k # key), key)]

\* cache.delete(key) for each key of toDelete
CacheDelete(c, toDelete) ==
    [c EXCEPT
        !.entries = [k \in DOMAIN c.entries \ toDelete |-> c.entries[k]],
        !.keys = SelectSeq(c.keys, LAMBDA k : k \notin toDelete)]

\* lines 485-491: keys.slice(0, keys.length - maxItems) are deleted
trimCache(c, maxItems) ==
    IF Len(c.keys) > maxItems
    THEN CacheDelete(c, {c.keys[i] : i \in 1..(Len(c.keys) - maxItems)})
    ELSE c

\* lines 157-158: the put is not awaited, so the keys() of trimCache runs
\* with the put carried out or not yet; in the second case trimCache works
\* on the keys as they were and the put lands after it.
PutAndTrim(c, key, response) ==
    {trimCache(CachePut(c, key, response), MAX_API_CACHE_ITEMS),
     CachePut(trimCache(c, MAX_API_CACHE_ITEMS), key, response)}

\* What the server sends for a read.
ServerResponse(status, body) ==
    [kind |-> "response", status |-> status,
     headers |-> ("Content-Type" :> "application/json"), body |-> body]

\* A plausible slip: the test of response.ok left out, so that whatever the
\* server answers is stored.
ResponseOkAnyStatus(net) == net.kind = "response"

\* response.ok of lines 143, 474 and 594, for what a fetch brought
ResponseOk(net) == net.kind = "response" /\ net.status \in 200..299

\* What a fetch can bring: a response, a network error, or, under
\* fetchWithTimeout, the abort of the 10-second timer.
Abort == [kind |-> "abort"]

NetOutcomes ==
    {ServerResponse(200, [data |-> "v1"]), ServerResponse(200, [data |-> "v2"]),
     ServerResponse(500, [error |-> "Server error"]), Throw}

\* The paths the application reads: a high-priority route and a medium one.
ApiPaths == {<<"api", "incidents">>, <<"api", "inspections">>}

\* A plausible slip: a failed network leg always answers 'offline'.
NetworkFailedAlwaysOffline(cachedResponse) ==
    createOfflineResponse("API request failed while offline")

\* lines 162-167: the catch block
NetworkFailed(cachedResponse) ==
    IF cachedResponse # None
    THEN addCacheHeaders(cachedResponse, Infinity)
    ELSE createOfflineResponse("API request failed while offline")

\* handleApiRequest(request, url): t1 is the clock when the handler looks at
\* the cache, net what the network leg brings if it is taken, t2 the clock
\* when a response is captured.  call keeps the handler's cachedResponse,
\* the number of fetches it has awaited, and what it returned.
handleApiRequest(path, onLine, t1, net, t2) ==
    LET config == RouteConfig(path)
        cachedResponse == IF path \in DOMAIN cache.entries THEN cache.entries[path] ELSE None
        age == IF cachedResponse # None THEN AgeOf(cachedResponse, t1) ELSE Infinity
        called == [fn |-> "handleApiRequest", args |-> <<path, t1, net>>,
                   cachedResponse |-> cachedResponse]
        Return(fetches, response) ==
            call' = [fn |-> called.fn, args |-> called.args,
                     cachedResponse |-> cachedResponse,
                     fetches |-> fetches, result |-> response]
    IN  /\ now <= t1 /\ t1 <= t2
        /\ IF cachedResponse # None /\ Fresh(age, config.maxAge)
           THEN /\ cache' = IF config.priority = "high" /\ onLine
                            THEN [cache EXCEPT !.background = @ \cup {path}]
                            ELSE cache
                /\ now' = t1
                /\ Return(0, addCacheHeaders(cachedResponse, age))
           ELSE IF net.kind = "response"
           THEN /\ cache' \in IF ResponseOk(net)
                              THEN PutAndTrim(cache, path, Timestamped(net, t2))
                              ELSE {cache}
                /\ now' = IF ResponseOk(net) THEN t2 ELSE t1
                /\ Return(1, net)
           ELSE /\ cache' = cache
                /\ now' = t1
                /\ Return(1, NetworkFailed(cachedResponse))
        /\ UNCHANGED <<store, acks, pass, passes, replays, accepted, settled>>

\* fetchAndCache(request, cache) of line 136 comes to its end: the response,
\* if it is ok, is put as the server sent it; a failure is swallowed.
FetchAndCacheDone(path, net) ==
    /\ path \in cache.background
    /\ cache' = [(IF ResponseOk(net)
                   THEN CachePut(cache, path, net)
                   ELSE cache)
                    EXCEPT !.background = @ \ {path}]
    /\ UNCHANGED <<call, store, now, acks, pass, passes, replays, accepted, settled>>

\* lines 587-589
HighPriorityRoutes ==
    {API_CACHE_CONFIG[i].route : i \in {i \in 1..Len(API_CACHE_CONFIG) :
                                          API_CACHE_CONFIG[i].priority = "high"}}

\* The place of a route in the table, which is the order of Object.entries.
RouteIndex(route) ==
    CHOOSE i \in 1..Len(API_CACHE_CONFIG) : API_CACHE_CONFIG[i].route = route

RECURSIVE RefreshRoutes(_, _, _, _)
\* lines 591-601: the loop over the routes still to do, in table order
RefreshRoutes(c, routes, nets, t) ==
    IF routes = {} THEN c
    ELSE LET route == CHOOSE r \in routes :
                        \A q \in routes : RouteIndex(r) <= RouteIndex(q)
             next == IF ResponseOk(nets[route])
                     THEN CachePut(c, route, Timestamped(nets[route], t))
                     ELSE c
         IN  RefreshRoutes(next, routes \ {route}, nets, t)

\* The 'periodicsync' listener (579-583) and refreshCriticalData: nets is
\* what the fetch of each high-priority route brings, t the clock of the
\* captures.
RefreshCriticalData(nets, t) ==
    /\ now <= t
    /\ now' = t
    /\ cache' = RefreshRoutes(cache, HighPriorityRoutes, nets, t)
    /\ UNCHANGED <<call, store, acks, pass, passes, replays, accepted, settled>>

\* The server answers the periodic refresh for the routes the application
\* reads; the other high-priority routes are out of reach.
RefreshOutcomes ==
    {nets \in [HighPriorityRoutes -> NetOutcomes] :
        \A r \in HighPriorityRoutes \ ApiPaths : nets[r] = Throw}

-----------------------------------------------------------------------------
(* The 'fetch' listener, sw.js 91-120.  A URL is [scheme, host, pathname,  *)
(* search]: pathname is the sequence of the segments between the slashes   *)
(* of url.pathname ("/" is <<"">>), search the query string split at its   *)
(* slashes (<<>> when there is none).  The listener's result is the        *)
(* handler it passes to event.respondWith, or "passthrough" when it        *)
(* returns without calling it.                                             *)

Url(scheme, host, pathname, search) ==
    [scheme |-> scheme, host |-> host, pathname |-> pathname, search |-> search]

\* The text of the URL after its origin, split at the slashes.
HrefSegments(url) ==
    IF url.search = <<>> THEN url.pathname
    ELSE SubSeq(url.pathname, 1, Len(url.pathname) - 1)
         \o <<url.pathname[Len(url.pathname)] \o url.search[1]>>
         \o Tail(url.search)

\* line 95: request.url.startsWith('http')
StartsWithHttp(url) == url.scheme \in {"http", "https"}

\* line 98: request.url.includes('/api/'), for a host that is not 'api'
IncludesApi(url) ==
    \E i \in 1..(Len(HrefSegments(url)) - 1) : HrefSegments(url)[i] = "api"

\* line 104: url.pathname.startsWith('/api/')
PathnameStartsWithApi(url) == Len(url.pathname) >= 2 /\ url.pathname[1] = "api"

FileNames == {"", "app", "index", "manifest", "logo", "photo", "incidents", "api"}

\* line 109: /\.(jpg|jpeg|png|gif|webp|svg)$/i on the pathname
ImageExtensions ==
    {".jpg", ".jpeg", ".png", ".gif", ".webp", ".svg",
     ".JPG", ".JPEG", ".PNG", ".GIF", ".WEBP", ".SVG"}

HasImageExtension(url) ==
    \E name \in FileNames, ext \in ImageExtensions :
        url.pathname[Len(url.pathname)] = name \o ext

\* lines 15-26
STATIC_FILES ==
    <<Url("", "", <<"">>, <<>>),
      Url("", "", <<"app.html">>, <<>>),
      Url("", "", <<"index.html">>, <<>>),
      Url("", "", <<"manifest.json">>, <<>>),
      Url("https", "cdn.tailwindcss.com", <<>>, <<>>),
      Url("https", "unpkg.com", <<"react@18", "umd", "react.production.min.js">>, <<>>),
      Url("https", "unpkg.com", <<"react-dom@18", "umd", "react-dom.production.min.js">>, <<>>),
      Url("https", "unpkg.com", <<"@babel", "standalone", "babel.min.js">>, <<>>),
      Url("https", "cdn.jsdelivr.net", <<"npm", "recharts@2.8.0", "umd", "Recharts.min.js">>, <<>>),
      Url("https", "fonts.googleapis.com", <<"css2">>,
          <<"?family=Inter:wght@300;400;500;600;700;800&display=swap">>)>>

\* line 114: url.pathname === file || url.href === file
IsStaticFile(url) ==
    \E i \in 1..Len(STATIC_FILES) :
        \/ /\ STATIC_FILES[i].host = ""
           /\ url.pathname = STATIC_FILES[i].pathname
        \/ url = STATIC_FILES[i]

\* line 97: request.method !== 'GET'
IsMutation(request) == request.method # "GET"

\* lines 91-120
FetchListener(request) ==
    IF ~StartsWithHttp(request.url) THEN "passthrough"
    ELSE IF IsMutation(request)
    THEN IF IncludesApi(request.url) THEN "handleMutationRequest" ELSE "passthrough"
    ELSE IF PathnameStartsWithApi(request.url) THEN "handleApiRequest"
    ELSE IF request.destination = "image" \/ HasImageExtension(request.url)
    THEN "handleImageRequest"
    ELSE IF IsStaticFile(request.url) THEN "cacheFirstStrategy"
    ELSE "staleWhileRevalidate"

\* The requests the listener sees: pages, assets, images, API reads and
\* writes, a write whose query names an API path, a browser-internal URL.
FetchUrls ==
    {Url(scheme, "host", pathname, <<>>) :
        scheme \in {"https", "http", "chrome-extension"},
        pathname \in {<<"">>, <<"app.html">>, <<"logo.PNG">>, <<"reports">>,
                      <<"api">>, <<"api", "incidents">>, <<"api", "photo.jpg">>,
                      <<"v2", "api", "incidents">>}}
    \cup {Url("https", "host", <<"reports">>, <<"?next=", "api", "incidents">>),
          Url("https", "host", <<"app.html">>, <<"?v=2">>),
          Url("https", "unpkg.com", <<"react@18", "umd", "react.production.min.js">>, <<>>)}

FetchCalls ==
    {[fn |-> "FetchListener",
      args |-> <<[url |-> url, method |-> method, destination |-> destination]>>,
      result |-> Pending] :
        url \in FetchUrls,
        method \in {"GET", "HEAD", "OPTIONS", "POST", "PUT", "DELETE"},
        destination \in {"", "image", "document"}}

CallFetchListener ==
    /\ call.fn = "FetchListener"
    /\ call.result = Pending
    /\ call' = [call EXCEPT !.result = Str(FetchListener(call.args[1]))]
    /\ UNCHANGED syncVars

-----------------------------------------------------------------------------
(* The other caches, by the requests they hold a response for.  The caps   *)
(* of lines 10-11 (50 and 100 entries) are out of reach of the few         *)
(* requests the model issues, so trimCache leaves these caches alone.      *)

\* lines 56-65: the 'install' listener; addAll stores every static file or,
\* when one of them cannot be fetched, none.
Install(ok) ==
    /\ cache' = IF ok
                THEN [cache EXCEPT !.static =
                        @ \cup {STATIC_FILES[i] : i \in 1..Len(STATIC_FILES)}]
                ELSE cache
    /\ UNCHANGED <<call, store, now, acks, pass, passes, replays, accepted, settled>>

\* lines 226-245: a cached image is served and refreshed in the background
\* under its own key; one that is not cached is stored when the network
\* response is ok.
handleImageRequest(url, net) ==
    /\ cache' = IF url \notin cache.image /\ ResponseOk(net)
                THEN [cache EXCEPT !.image = @ \cup {url}]
                ELSE cache
    /\ UNCHANGED <<call, store, now, acks, pass, passes, replays, accepted, settled>>

\* lines 266-280: the network response, when ok, is stored in the dynamic
\* cache
staleWhileRevalidate(url, net) ==
    /\ cache' = IF ResponseOk(net)
                THEN [cache EXCEPT !.dynamic = @ \cup {url}]
                ELSE cache
    /\ UNCHANGED <<call, store, now, acks, pass, passes, replays, accepted, settled>>

-----------------------------------------------------------------------------
(* The 'message' listener, sw.js 605-628.  FORCE_SYNC is ForceSyncMessage  *)
(* above.  call keeps the message and what was posted back to its source.  *)

\* lines 612-618: GET_PENDING_SYNC_COUNT
GetPendingSyncCount ==
    /\ call' = [fn |-> "GET_PENDING_SYNC_COUNT", args |-> <<>>,
                result |-> [type |-> "PENDING_SYNC_COUNT",
                            count |-> Cardinality(DOMAIN store)]]
    /\ UNCHANGED syncVars

\* A plausible slip: CLEAR_CACHE deletes every cache of the worker.
ClearedAll(c) == EmptyCache

\* line 620: caches.delete(API_CACHE) and caches.delete(DYNAMIC_CACHE)
Cleared(c) ==
    [c EXCEPT !.entries = EmptyCache.entries, !.keys = <<>>,
              !.background = {}, !.dynamic = {}]

\* lines 619-622: CLEAR_CACHE deletes the API cache and the dynamic cache.
\* A background refresh in flight keeps the deleted cache object and puts
\* into it, out of sight of every later caches.open.
ClearCache ==
    /\ cache' = Cleared(cache)
    /\ call' = [fn |-> "CLEAR_CACHE", args |-> <<>>,
                result |-> [type |-> "CACHE_CLEARED"]]
    /\ UNCHANGED <<store, now, acks, pass, passes, replays, accepted, settled>>

-----------------------------------------------------------------------------
(* Specifications.                                                         *)

NoCall == [fn |-> "none", args |-> <<>>, result |-> Pending]

QueueInit ==
    /\ store = EmptyStore
    /\ now = 0
    /\ acks = <<>>
    /\ pass = [tr \in Triggers |-> IdlePass]
    /\ passes = 0
    /\ replays = [k \in {} |-> 0]
    /\ accepted = <<>>
    /\ settled = {}
    /\ cache = EmptyCache

Init == call = NoCall /\ QueueInit

\* No activation of the sync function is in flight.
NoPassRunning == \A tr \in Triggers : pass[tr].pc \in {"idle", "done"}

\* The reads of Date.now() in one handleMutationRequest: the id's, then the
\* timestamp's.
ClockReads == {rd \in (0..MaxTime) \X (0..MaxTime) : rd[1] <= rd[2]}

\* Both reads within one millisecond.
SameMsReads == {rd \in ClockReads : rd[1] = rd[2]}

Queueing(requests, reads) ==
    \E r \in requests, rd \in reads, rnd \in Suffixes :
        HandleMutationQueued(r, rd[1], rnd, rd[2])

\* A create, and one update for each way the resolver can go.
CoreRequests ==
    {r \in Requests :
        \/ r.method = "POST"
        \/ r.method = "PUT" /\ r.url \in {<<"api", "incidents", E1>>,
                                          <<"api", "action-items", E1>>,
                                          <<"api", "observations", E1>>}}

PassSteps(probes, outcomes) ==
    \/ \E tr \in Triggers, probe \in probes : SyncDetect(tr, probe)
    \/ \E tr \in Triggers, outcome \in outcomes : SyncReplay(tr, outcome)
    \/ \E tr \in Triggers : SyncSummary(tr)

\* A probe that fails, one that finds a newer server copy, one that finds an
\* older one.
CoreProbes == {Throw} \cup {pr \in ProbeOutcomes : pr.kind = "response" /\ pr.ok
                                /\ GetProp(pr.json, "status") = Str("draft")}

\* The queue with sync passes that do not overlap: a trigger is delivered
\* when the pass before it has returned.
Next ==
    \/ HandleMutationOnline
    \/ Len(acks) < MaxQueued /\ Queueing(CoreRequests, SameMsReads)
    \/ NoPassRunning /\ passes < MaxPasses /\ SyncEvent
    \/ NoPassRunning /\ passes < MaxPasses /\ ForceSyncMessage
    \/ PassSteps(CoreProbes, ReplayOutcomes)

Spec == Init /\ [][Next]_vars

\* One sync pass over a queue of up to MaxQueued requests of every kind.
NextPass ==
    \/ HandleMutationOnline
    \/ Len(acks) < MaxQueued /\ Queueing(Requests, ClockReads)
    \/ NoPassRunning /\ passes = 0 /\ SyncEvent
    \/ NoPassRunning /\ passes = 0 /\ ForceSyncMessage
    \/ PassSteps(ProbeOutcomes, ReplayOutcomes)

SpecPass == Init /\ [][NextPass]_vars

\* One queued request, and passes whose replays all end in a server error.
NextRetry ==
    \/ Len(acks) = 0 /\ Queueing(Requests, ClockReads)
    \/ NoPassRunning /\ passes <= RetryCeiling /\ SyncEvent
    \/ NoPassRunning /\ passes <= RetryCeiling /\ ForceSyncMessage
    \/ PassSteps(ProbeOutcomes, {Response(500), Response(503)})

SpecRetry == Init /\ [][NextRetry]_vars

\* One queued request, and passes whose replays all fail: the server
\* answers 500 or the fetch throws.
NextFail ==
    \/ Len(acks) = 0 /\ Queueing(Requests, ClockReads)
    \/ NoPassRunning /\ passes <= RetryCeiling /\ SyncEvent
    \/ NoPassRunning /\ passes <= RetryCeiling /\ ForceSyncMessage
    \/ PassSteps(ProbeOutcomes, {Response(500), Throw})

SpecFail == Init /\ [][NextFail]_vars

\* One sync pass over a create and an update under the merge policy whose
\* body is the JSON text null, which mergeObjects cannot enumerate.
CatchRequests ==
    {Request("POST", <<"api", "incidents">>, "{\"title\":9}"),
     Request("PUT", <<"api", "action-items", E1>>, "null")}

NextCatch ==
    \/ Len(acks) < MaxQueued /\ Queueing(CatchRequests, SameMsReads)
    \/ NoPassRunning /\ passes = 0 /\ SyncEvent
    \/ NoPassRunning /\ passes = 0 /\ ForceSyncMessage
    \/ PassSteps(ProbeOutcomes, ReplayOutcomes)

SpecCatch == Init /\ [][NextCatch]_vars

\* The mutating requests of the application, with one whose URL ends in a
\* query string.
HandleRequests ==
    Requests \cup {Request("POST", <<"api", "action-items?notify=1">>, "{\"title\":9}")}

\* handleMutationRequest alone, under every environment: online or not, the
\* direct attempt answered or not, the store write carried out or not, the
\* sync registration absent, resolved or rejected.
NextHandle ==
    \E request \in HandleRequests, env \in Environments,
       rd \in ClockReads, rnd \in Suffixes :
        /\ Len(acks) + Cardinality(DOMAIN store \ UsedIds) < MaxQueued
        /\ handleMutationRequest(request, env[1], env[2], env[3], env[4],
                                 rd[1], rnd, rd[2])

SpecHandle == Init /\ [][NextHandle]_vars

\* The API cache under reads, background refreshes and periodic refreshes.
NextCache ==
    \/ \E path \in ApiPaths, onLine \in BOOLEAN, t \in ApiTimes,
          net \in NetOutcomes \cup {Abort} :
            handleApiRequest(path, onLine, t, net, t)
    \/ \E path \in ApiPaths, net \in NetOutcomes : FetchAndCacheDone(path, net)
    \/ \E nets \in RefreshOutcomes, t \in ApiTimes : RefreshCriticalData(nets, t)

SpecCache == Init /\ [][NextCache]_vars

\* The API cache filled up to its cap: the application reads one document
\* after the other while offline-flagged, reads the list of incidents, and
\* the periodic refresh runs; the clock stands still.
MaxDocuments == 101

Document(n) == <<"api", "documents", ToString(n)>>

NextDocument ==
    LET read == {n \in 1..MaxDocuments : Document(n) \in DOMAIN cache.entries}
    IN  IF read = {} THEN 1 ELSE 1 + CHOOSE n \in read : \A m \in read : m <= n

Incidents == <<"api", "incidents">>

OnlyIncidents ==
    [r \in HighPriorityRoutes |->
        IF r = Incidents THEN ServerResponse(200, [data |-> "v1"]) ELSE Throw]

NextTrim ==
    \/ /\ NextDocument <= MaxDocuments
       /\ handleApiRequest(Document(NextDocument), FALSE, now,
                           ServerResponse(200, [data |-> "v1"]), now)
    \/ handleApiRequest(Incidents, TRUE, now, ServerResponse(200, [data |-> "v1"]), now)
    \/ FetchAndCacheDone(Incidents, ServerResponse(200, [data |-> "v2"]))
    \/ RefreshCriticalData(OnlyIncidents, now)

SpecTrim == Init /\ [][NextTrim]_vars

\* Every operation of the worker around one sync pass: queued writes, the
\* pass, the messages of the application, API reads, the background and the
\* periodic refresh.
WorkerRequests ==
    {Request("POST", <<"api", "incidents">>, "{\"title\":9}"),
     Request("PUT", <<"api", "incidents", E1>>, "{\"title\":9}")}

NextWorker ==
    \/ Len(acks) < MaxQueued /\ Queueing(WorkerRequests, SameMsReads)
    \/ NoPassRunning /\ passes = 0 /\ SyncEvent
    \/ NoPassRunning /\ passes = 0 /\ ForceSyncMessage
    \/ PassSteps(CoreProbes, ReplayOutcomes)
    \/ GetPendingSyncCount
    \/ ClearCache
    \/ handleApiRequest(Incidents, TRUE, now, ServerResponse(200, [data |-> "v1"]), now)
    \/ FetchAndCacheDone(Incidents, ServerResponse(200, [data |-> "v2"]))
    \/ RefreshCriticalData(OnlyIncidents, now)

SpecWorker == Init /\ [][NextWorker]_vars

\* The caches and the queue side by side: queued writes, the installation,
\* image and page reads, API reads, the periodic refresh, CLEAR_CACHE.
ClearNets == {ServerResponse(200, [data |-> "v1"]),
              ServerResponse(500, [error |-> "Server error"]), Throw}

ClearRefreshes ==
    {nets \in RefreshOutcomes : nets[Incidents] \in ClearNets}

NextClear ==
    \/ Len(acks) < MaxQueued /\ Queueing(WorkerRequests, SameMsReads)
    \/ \E ok \in BOOLEAN : Install(ok)
    \/ \E net \in ClearNets : handleImageRequest(Url("https", "host", <<"logo.PNG">>, <<>>), net)
    \/ \E net \in ClearNets : staleWhileRevalidate(Url("https", "host", <<"reports">>, <<>>), net)
    \/ \E net \in ClearNets : handleApiRequest(Incidents, TRUE, now, net, now)
    \/ \E net \in ClearNets : FetchAndCacheDone(Incidents, net)
    \/ \E nets \in ClearRefreshes : RefreshCriticalData(nets, now)
    \/ ClearCache

SpecClear == Init /\ [][NextClear]_vars

\* Sync passes that overlap: a 'sync' event and a FORCE_SYNC message are
\* delivered whether or not the pass of the other is still running
\* (lines 282-286 and 623-626 hold no lock).
NextOverlap ==
    \/ Len(acks) < MaxQueued /\ Queueing(WorkerRequests, SameMsReads)
    \/ passes < MaxPasses /\ SyncEvent
    \/ passes < MaxPasses /\ ForceSyncMessage
    \/ PassSteps(CoreProbes, ReplayOutcomes)

SpecOverlap == Init /\ [][NextOverlap]_vars

\* The server recovers: of the replay calls made for one record at most
\* RetryCeiling fail (a 5xx status or a throw), and a probe reports a
\* conflict only while a replay of the record may still fail.
FailuresLeft(tr) ==
    LET id == pass[tr].requests[pass[tr].i].id
    IN  IF id \in DOMAIN replays THEN replays[id] < RetryCeiling ELSE TRUE

\* A 'sync' event or a FORCE_SYNC message, delivered while a record is queued.
LiveTrigger ==
    /\ NoPassRunning
    /\ DOMAIN store # {}
    /\ passes <= RetryCeiling
    /\ (SyncEvent \/ ForceSyncMessage)

\* The steps of a running pass.
LiveSteps ==
    \/ \E tr \in Triggers, probe \in ProbeOutcomes :
        /\ pass[tr].pc = "loop"
        /\ IF FailuresLeft(tr) THEN TRUE
           ELSE ~checkForConflict(pass[tr].requests[pass[tr].i], probe).hasConflict
        /\ SyncDetect(tr, probe)
    \/ \E tr \in Triggers : SyncReplay(tr, Response(200))
    \/ \E tr \in Triggers, outcome \in {Response(500), Throw} :
        /\ pass[tr].pc \in {"loop", "replay"}
        /\ FailuresLeft(tr)
        /\ SyncReplay(tr, outcome)
    \/ \E tr \in Triggers : SyncSummary(tr)

NextLive ==
    \/ Len(acks) = 0 /\ Queueing(CoreRequests, SameMsReads)
    \/ LiveTrigger
    \/ LiveSteps

\* Sync passes keep being triggered while a record is queued, and a pass
\* that has started runs to its end.
SpecLive ==
    Init /\ [][NextLive]_vars /\ WF_vars(LiveTrigger) /\ WF_vars(LiveSteps)

\* The pure functions, called on each input of the bounded sets.
InitFn == call \in MergeCalls \cup ResolveCalls \cup ConflictCalls /\ QueueInit

NextFn == CallMergeObjects \/ CallResolveConflict \/ CallCheckForConflict

SpecFn == InitFn /\ [][NextFn]_vars

\* The fetch listener, called on each request of the bounded set.
InitFetch == call \in FetchCalls /\ QueueInit

NextFetch == CallFetchListener

SpecFetch == InitFetch /\ [][NextFetch]_vars

-----------------------------------------------------------------------------
(* Properties of the pure functions, checked under SpecFn.                 *)

Returned(fn) == call.fn = fn /\ call.result # Pending

\* C8: for a client-wins-draft mutation with a detected conflict,
\* resolveConflict proceeds with the client's own body exactly when the status
\* field of the server snapshot is the string 'draft', and skips for every
\* other status, a missing one included.
C8_DraftGate ==
    (Returned("resolveConflict") /\ call.args[1].conflictStrategy = "client-wins-draft") =>
        LET pendingReq == call.args[1]
            snapshot == call.args[2].serverData.v
            draft == "status" \in DOMAIN snapshot /\ snapshot["status"] = Str("draft")
        IN  IF draft
            THEN ~call.result.skip /\ call.result.resolvedBody = pendingReq.body
            ELSE call.result.skip

C8_Witness ==
    /\ Returned("resolveConflict")
    /\ call.args[1].conflictStrategy = "client-wins-draft"
    /\ "status" \in DOMAIN call.args[2].serverData.v
    /\ call.args[2].serverData.v["status"] = Str("draft")
    /\ call.args[1].body = Obj([title |-> Num(9)])
    /\ call.result.resolvedBody = Obj([title |-> Num(9)])

\* The merge the specification describes, on plain objects: a null or
\* undefined client value leaves the server's; two plain objects merge
\* recursively; any other client value replaces the server's.
RECURSIVE ReferenceMerge(_, _)
ReferenceMerge(server, client) ==
    LET set == {k \in DOMAIN client.v : ~Nullish(client.v[k])}
    IN  Obj([k \in DOMAIN server.v \cup set |->
                IF k \notin set THEN server.v[k]
                ELSE IF /\ client.v[k].t = "object"
                        /\ k \in DOMAIN server.v
                        /\ server.v[k].t = "object"
                     THEN ReferenceMerge(server.v[k], client.v[k])
                     ELSE client.v[k]])

\* C9: mergeObjects(server, client) is the reference merge: at each client
\* key a null or undefined value leaves the server's value, two plain objects
\* are merged recursively, and in every other case the client's value replaces
\* the server's; keys only the server has are kept.
C9_MergeIsReferenceMerge ==
    Returned("mergeObjects") =>
        call.result = ReferenceMerge(call.args[1], call.args[2])

DisjointKeys == DOMAIN call.args[1].v \cap DOMAIN call.args[2].v = {}

\* { ...S, ...C }
Spread(S, C) == Obj(C.v @@ S.v)

\* C10, as claimed: for S and C with no key in common, mergeObjects(S, C) is
\* { ...S, ...C }, whatever the values of C, null included.
C10_DisjointIsSpread ==
    (Returned("mergeObjects") /\ DisjointKeys) =>
        call.result = Spread(call.args[1], call.args[2])

\* C10, amended: for S and C with no key in common, where no value of C is
\* null or undefined and C has no own key "__proto__", mergeObjects(S, C) is
\* { ...S, ...C }.
C10_DisjointSetIsSpread ==
    (/\ Returned("mergeObjects")
     /\ DisjointKeys
     /\ "__proto__" \notin DOMAIN call.args[2].v
     /\ \A k \in DOMAIN call.args[2].v : ~Nullish(call.args[2].v[k])) =>
        call.result = Spread(call.args[1], call.args[2])

C10_Witness ==
    /\ Returned("mergeObjects")
    /\ call.args[1] = Obj([a |-> Obj([x |-> Num(1)])])
    /\ call.args[2] = Obj([b |-> Obj([y |-> Null])])
    /\ call.result = Obj([a |-> Obj([x |-> Num(1)]), b |-> Obj([y |-> Null])])

\* The timestamp field the detector reads: updatedAt, createdAt when the
\* entity has no updatedAt (none, or null).
StampOf(entity) ==
    IF "updatedAt" \in DOMAIN entity.v /\ entity.v["updatedAt"] # Null
    THEN entity.v["updatedAt"]
    ELSE IF "createdAt" \in DOMAIN entity.v THEN entity.v["createdAt"]
    ELSE Undefined

\* The stamp is a date strictly later than the millisecond t.
StrictlyLater(stamp, t) ==
    stamp.t = "string" /\ stamp.v \in DOMAIN IsoTable /\ IsoTable[stamp.v] > t

\* The probe was made and brought the entity.
ProbeSucceeded(pendingReq, probe) ==
    /\ extractEntityId(pendingReq.url) # ""
    /\ probe.kind = "response"
    /\ probe.ok
    /\ probe.json # SyntaxError

\* C11: checkForConflict reports a conflict if and only if the probe
\* succeeded and the server entity's updatedAt (createdAt when it has no
\* updatedAt) is strictly later than the mutation's timestamp; an equal or
\* earlier server timestamp reports no conflict; a reported conflict carries
\* the server snapshot, the server timestamp and the client timestamp.
C11_ConflictIffServerStrictlyLater ==
    Returned("checkForConflict") =>
        LET pendingReq == call.args[1]
            probe == call.args[2]
            later == /\ ProbeSucceeded(pendingReq, probe)
                     /\ StrictlyLater(StampOf(probe.json), pendingReq.timestamp)
        IN  /\ call.result.hasConflict <=> later
            /\ call.result.hasConflict =>
                    /\ call.result.serverData = probe.json
                    /\ call.result.serverTimestamp = Num(IsoTable[StampOf(probe.json).v])
                    /\ call.result.clientTimestamp = Num(pendingReq.timestamp)

\* A conflict found through createdAt, and carried whole.
C11_Witness ==
    /\ Returned("checkForConflict")
    /\ call.args[1].timestamp = 2
    /\ call.args[2].kind = "response"
    /\ call.args[2].json = Obj([createdAt |-> Str(Iso3)])
    /\ call.result = [hasConflict |-> TRUE, serverData |-> Obj([createdAt |-> Str(Iso3)]),
                      serverTimestamp |-> Num(3), clientTimestamp |-> Num(2)]

-----------------------------------------------------------------------------
(* Properties of one sync pass, checked under SpecPass.  They read the     *)
(* activation while it runs: what it has issued so far is in its events.   *)

Running(tr) == pass[tr].pc \in {"loop", "replay", "summary"}

\* The items of the activation whose loop body has ended.
Handled(tr) == {j \in 1..Len(pass[tr].requests) : j < pass[tr].i}

\* The positions in the activation's events of the calls of one type made
\* for the record id.
Calls(tr, type, id) ==
    {k \in 1..Len(pass[tr].events) :
        pass[tr].events[k].type = type /\ pass[tr].events[k].id = id}

\* The messages of one type posted for the record id.
Posts(tr, type, id) ==
    {k \in 1..Len(pass[tr].events) :
        /\ pass[tr].events[k].type = "postMessage"
        /\ pass[tr].events[k].data.type = type
        /\ pass[tr].events[k].data.requestId = id}

\* The answer handleMutationRequest gave when it queued the record id.
AckOf(id) == acks[CHOOSE k \in 1..Len(acks) : acks[k].pendingId = id]

\* C1: within one run of syncPendingRequestsWithConflictResolution, the
\* replay calls are issued in non-decreasing order of the enqueue timestamp:
\* of two replayed mutations, the one with the smaller timestamp is replayed,
\* and its response handled, before the other is replayed.
C1_ReplayInTimestampOrder ==
    \A tr \in Triggers :
        LET ev == pass[tr].events
        IN  \A a, b \in 1..Len(ev) :
                (/\ ev[a].type = "replay"
                 /\ ev[b].type = "replay"
                 /\ AckOf(ev[a].id).queuedAt < AckOf(ev[b].id).queuedAt) =>
                    a < b

\* Two replays whose order is the timestamps' and not the store's key order.
C1_Witness ==
    \E tr \in Triggers :
        LET ev == pass[tr].events
        IN  \E a, b \in 1..Len(ev) :
                /\ a < b
                /\ ev[a].type = "replay"
                /\ ev[b].type = "replay"
                /\ AckOf(ev[a].id).queuedAt < AckOf(ev[b].id).queuedAt
                /\ KeyLess(ev[b].id, ev[a].id)

\* What C5 says of the mutations that are not checked: each is replayed with
\* the body that was stored for it, and no probe is sent for it.
ReplayedAsStored(tr, j) ==
    LET pendingReq == pass[tr].requests[j]
        sent == Calls(tr, "replay", pendingReq.id)
    IN  (pendingReq.method # "PUT" \/ pendingReq.conflictStrategy = "client-wins") =>
            /\ Cardinality(sent) = 1
            /\ \A k \in sent :
                    pass[tr].events[k].body =
                        JsonStringify(ParsedBody(AckOf(pendingReq.id).request.body))
            /\ Calls(tr, "probe", pendingReq.id) = {}

\* C5, as claimed: a conflict probe is sent for a queued mutation if and only
\* if its method is PUT and its stored conflictStrategy is not 'client-wins';
\* every other mutation is replayed with its stored body and no probe.
C5_ProbeIffUpdateNotClientWins ==
    \A tr \in Triggers : Running(tr) =>
        \A j \in Handled(tr) :
            LET pendingReq == pass[tr].requests[j]
            IN  /\ Calls(tr, "probe", pendingReq.id) # {}
                    <=> (/\ pendingReq.method = "PUT"
                         /\ pendingReq.conflictStrategy # "client-wins")
                /\ ReplayedAsStored(tr, j)

\* C5, amended: a conflict probe is sent for a queued mutation if and only if
\* its method is PUT, its stored conflictStrategy is not 'client-wins' and its
\* URL has an id-shaped segment; every mutation that is not a PUT and every
\* client-wins mutation is replayed with its stored body and no probe.
C5_ProbeIffUpdateWithIdNotClientWins ==
    \A tr \in Triggers : Running(tr) =>
        \A j \in Handled(tr) :
            LET pendingReq == pass[tr].requests[j]
            IN  /\ Calls(tr, "probe", pendingReq.id) # {}
                    <=> (/\ pendingReq.method = "PUT"
                         /\ pendingReq.conflictStrategy # "client-wins"
                         /\ extractEntityId(pendingReq.url) # "")
                /\ ReplayedAsStored(tr, j)

\* A pass that has probed for one update and replayed a DELETE without one.
C5_Witness ==
    \E tr \in Triggers :
        /\ pass[tr].pc = "summary"
        /\ \E j, k \in Handled(tr) :
            /\ pass[tr].requests[j].method = "PUT"
            /\ Calls(tr, "probe", pass[tr].requests[j].id) # {}
            /\ pass[tr].requests[k].method = "DELETE"
            /\ Calls(tr, "replay", pass[tr].requests[k].id) # {}
            /\ Calls(tr, "probe", pass[tr].requests[k].id) = {}

\* The body handleMutationRequest stored for the record id.
StoredBody(id) == ParsedBody(AckOf(id).request.body)

\* The conflict check of item j could not be made: its URL has no entity id,
\* or the probe made for it threw or came back with a non-success status.
ProbeFailed(tr, j) ==
    LET pendingReq == pass[tr].requests[j]
    IN  /\ pendingReq.method = "PUT"
        /\ pendingReq.conflictStrategy # "client-wins"
        /\ \/ extractEntityId(pendingReq.url) = ""
           \/ \E k \in Calls(tr, "probe", pendingReq.id) :
                \/ pass[tr].events[k].outcome.kind = "throw"
                \/ ~pass[tr].events[k].outcome.ok

\* C12: conflict detection fails open: when no entity id can be extracted
\* from the mutation's URL, when the probe throws, or when it returns a
\* non-success status, no conflict is reported and the pass goes on to replay
\* the mutation with its stored body: the item is not skipped, its body is
\* left as stored, and the one replay call made for it carries that body.
C12_DetectionFailsOpen ==
    \A tr \in Triggers : Running(tr) =>
        \A j \in 1..Len(pass[tr].requests) : ProbeFailed(tr, j) =>
            LET p == pass[tr]
                id == p.requests[j].id
                sent == Calls(tr, "replay", id)
            IN  /\ \A c \in 1..Len(p.conflictedRequests) : p.conflictedRequests[c] # id
                /\ p.requests[j].body = StoredBody(id)
                /\ j \in Handled(tr) =>
                        /\ Cardinality(sent) = 1
                        /\ \A k \in sent : p.events[k].body = JsonStringify(StoredBody(id))

\* A pass that has replayed an update whose probe threw and one that has no
\* entity id.
C12_Witness ==
    \E tr \in Triggers :
        /\ pass[tr].pc = "summary"
        /\ \E j, k \in Handled(tr) :
            /\ ProbeFailed(tr, j)
            /\ Calls(tr, "probe", pass[tr].requests[j].id) # {}
            /\ ProbeFailed(tr, k)
            /\ extractEntityId(pass[tr].requests[k].url) = ""
            /\ Calls(tr, "replay", pass[tr].requests[j].id) # {}
            /\ Calls(tr, "replay", pass[tr].requests[k].id) # {}

\* The resolver returned skip for item j of the activation: the probe made
\* for it brought a conflict, and the resolution of that conflict is a skip.
ResolverSkipped(tr, j) ==
    LET pendingReq == pass[tr].requests[j]
    IN  \E k \in Calls(tr, "probe", pendingReq.id) :
            LET conflict == checkForConflict(pendingReq, pass[tr].events[k].outcome)
                resolution == resolveConflict(pendingReq, conflict)
            IN  /\ NeedsCheck(pendingReq)
                /\ conflict.hasConflict
                /\ resolution # TypeError
                /\ resolution.skip

\* C6: whenever the resolver returns skip for a mutation, the pass issues no
\* replay call for it, deletes its record from the queue, and counts it once
\* in conflicts and not at all in synced or failed: conflicts is the number
\* of skipped mutations, and synced + failed the number of the others the
\* pass has handled.
C6_SkipDeletesWithoutReplay ==
    \A tr \in Triggers : Running(tr) =>
        LET p == pass[tr]
            skipped == {j \in 1..Len(p.requests) : ResolverSkipped(tr, j)}
        IN  /\ \A j \in skipped :
                    /\ Calls(tr, "replay", p.requests[j].id) = {}
                    /\ p.requests[j].id \notin DOMAIN store
            /\ p.results.conflicts = Cardinality(skipped)
            /\ p.results.synced + p.results.failed =
                    Cardinality(Handled(tr)) - Cardinality(skipped)

\* A pass that has skipped one mutation and synced another.
C6_Witness ==
    \E tr \in Triggers :
        /\ pass[tr].pc = "summary"
        /\ \E j \in Handled(tr) : ResolverSkipped(tr, j)
        /\ pass[tr].results = [synced |-> 1, failed |-> 0, conflicts |-> 1]

\* A create that was queued with a JSON body and that the FORCE_SYNC pass
\* has handled with a 2xx answer from the server.
CreateSynced(j) ==
    LET p == pass["FORCE_SYNC"]
        id == p.requests[j].id
    IN  /\ j \in Handled("FORCE_SYNC")
        /\ AckOf(id).request.method = "POST"
        /\ JsonParse(AckOf(id).request.body) # SyntaxError
        /\ \E k \in Calls("FORCE_SYNC", "replay", id) :
                /\ p.events[k].outcome.kind = "response"
                /\ p.events[k].outcome.status \in 200..299

\* C7: a POST made while offline is answered 202 with offline: true and a
\* pendingId; a FORCE_SYNC pass in which the server answers 2xx sends exactly
\* one POST, to the same URL and carrying the original JSON body, removes the
\* record of that pendingId from the queue, and posts one SYNC_SUCCESS
\* message carrying that id.
C7_OfflineCreateThenForceSync ==
    Running("FORCE_SYNC") =>
        \A j \in 1..Len(pass["FORCE_SYNC"].requests) : CreateSynced(j) =>
            LET p == pass["FORCE_SYNC"]
                id == p.requests[j].id
                ack == AckOf(id)
                sent == Calls("FORCE_SYNC", "replay", id)
            IN  /\ ack.status = 202 /\ ack.offline
                /\ Cardinality(sent) = 1
                /\ \A k \in sent :
                        /\ p.events[k].method = "POST"
                        /\ p.events[k].url = ack.request.url
                        /\ p.events[k].body = JsonParse(ack.request.body)
                /\ id \notin DOMAIN store
                /\ Cardinality(Posts("FORCE_SYNC", "SYNC_SUCCESS", id)) = 1

C7_Witness ==
    /\ pass["FORCE_SYNC"].pc = "summary"
    /\ \E j \in 1..Len(pass["FORCE_SYNC"].requests) : CreateSynced(j)

-----------------------------------------------------------------------------
(* Properties of the queue across sync passes that do not overlap, checked *)
(* under Spec and, for the retry count, under SpecRetry.                   *)

\* C13: exactly one PendingMutation exists for each enqueued offline write:
\* after n queued mutating requests with no sync pass in between, the store
\* holds n records with pairwise distinct ids, one for each request and with
\* its URL, method and body, also when several writes go to the same URL.
C13_OneRecordPerQueuedWrite ==
    passes = 0 =>
        /\ Cardinality(DOMAIN store) = Len(acks)
        /\ \A j, k \in 1..Len(acks) : j # k => acks[j].pendingId # acks[k].pendingId
        /\ \A k \in 1..Len(acks) :
                /\ acks[k].pendingId \in DOMAIN store
                /\ store[acks[k].pendingId].url = acks[k].request.url
                /\ store[acks[k].pendingId].method = acks[k].request.method
                /\ store[acks[k].pendingId].body = ParsedBody(acks[k].request.body)

\* Two writes to one URL queued within one millisecond, both in the store.
C13_Witness ==
    /\ passes = 0
    /\ Len(acks) = 2
    /\ acks[1].request = acks[2].request
    /\ acks[1].queuedAt = acks[2].queuedAt
    /\ Cardinality(DOMAIN store) = 2

-----------------------------------------------------------------------------
(* Properties of handleMutationRequest, checked under SpecHandle.          *)

C15_AnsweredMeansStored ==
    \A k \in 1..Len(acks) :
        LET p == acks[k].pendingId
        IN  \/ p \in DOMAIN replays
            \/ p \in settled
            \/ /\ p \in DOMAIN store
               /\ store[p].timestamp = acks[k].queuedAt
               /\ store[p].retryCount = 0

\* The path segment of a URL segment: what is left without the query string.
PathSegment(segment) ==
    IF segment = "action-items?notify=1" THEN "action-items" ELSE segment

\* The policy table as the specification gives it.
PolicyOf(entityType) ==
    CASE entityType = "incidents" -> "server-wins"
      [] entityType = "action-items" -> "merge"
      [] entityType = "inspections" -> "client-wins-draft"
      [] entityType = "observations" -> "client-wins"
      [] OTHER -> "server-wins"

\* The records handleMutationRequest has created and no pass has touched.
Created == {k \in 1..Len(acks) : acks[k].pendingId \in DOMAIN store /\ passes = 0}

\* C16: every record created by handleMutationRequest has
\* retryCount 0, entityType equal to the path segment following /api/ in the
\* request URL, and conflictStrategy equal to the policy table's entry for
\* that entity type, server-wins when it has none.
C16_CreatedWithPathSegmentPolicy ==
    \A k \in Created :
        LET rec == store[acks[k].pendingId]
            segment == PathSegment(acks[k].request.url[2])
        IN  /\ rec.retryCount = 0
            /\ rec.entityType = segment
            /\ rec.conflictStrategy = PolicyOf(segment)

-----------------------------------------------------------------------------
(* Properties of the queue across sync passes.                             *)

\* C17: for every stored PendingMutation the fields id, url, method, headers,
\* timestamp, entityType and conflictStrategy are what they were at enqueue
\* until the record is deleted; a sync pass that writes a record back changes
\* only retryCount and, after a merge resolution, body.
C17_IdentityFieldsFrozen ==
    \A id \in DOMAIN store :
        LET rec == store[id]
            ack == AckOf(id)
        IN  /\ rec.id = id
            /\ rec.url = ack.request.url
            /\ rec.method = ack.request.method
            /\ rec.headers = ack.request.headers
            /\ rec.timestamp = ack.queuedAt
            /\ rec.entityType = ack.message.entityType
            /\ rec.conflictStrategy = PolicyOf(ack.request.url[2])
            /\ DOMAIN rec = {"id", "url", "method", "headers", "body", "timestamp",
                             "retryCount", "entityType", "conflictStrategy"}
            /\ rec.body # StoredBody(id) =>
                    rec.conflictStrategy = "merge" /\ rec.retryCount > 0

\* A record written back by a pass after a merge resolution, with a new body
\* and a retry counted.
C17_Witness ==
    \E id \in DOMAIN store :
        /\ store[id].retryCount = 1
        /\ store[id].conflictStrategy = "merge"
        /\ store[id].body # StoredBody(id)

\* The position at which the server accepted the replay of the record id.
AcceptedAt(id) == {k \in 1..Len(accepted) : accepted[k] = id}

\* C2: over sync passes that do not overlap, two queued mutations to the same
\* entity reach the server in their enqueue order: the server never accepts
\* the mutation queued earlier after it has accepted the one queued later.
C2_SameEntityAcceptedInEnqueueOrder ==
    \A j, k \in 1..Len(acks) :
        (/\ acks[j].queuedAt < acks[k].queuedAt
         /\ acks[j].request.url = acks[k].request.url
         /\ extractEntityId(acks[j].request.url) # "") =>
            \A a \in AcceptedAt(acks[j].pendingId), b \in AcceptedAt(acks[k].pendingId) :
                a < b

\* C3: a mutation whose replays all end in a 5xx status is never replayed
\* more than five times over all sync passes, and after the fifth failure its
\* record is still in the queue.
C3_AtMostFiveReplays ==
    \A id \in DOMAIN replays :
        /\ replays[id] <= RetryCeiling
        /\ (replays[id] = RetryCeiling /\ id \notin settled) => id \in DOMAIN store

\* C4: with sync passes that do not overlap, once a replay of a mutation has
\* ended in 2xx or 409, or the mutation has been conflict-skipped, no record
\* with its id is in the pendingRequests store in any later state.
C4_SettledStaysOut == settled \cap DOMAIN store = {}

\* A record settled by an earlier pass, and a later pass that has run over
\* records queued since.
C4_Witness ==
    \E id \in settled, tr \in Triggers :
        /\ passes >= 2
        /\ pass[tr].pc = "summary"
        /\ Len(pass[tr].requests) > 0
        /\ \A j \in 1..Len(pass[tr].requests) : pass[tr].requests[j].id # id

-----------------------------------------------------------------------------
(* Properties of the API cache, checked under SpecCache.                   *)

\* C18: for a cached API entry with capture time T and a route with maxAge
\* M, a read strictly before T + M returns the cached copy without waiting
\* for the network, and a read at or after T + M makes a network attempt
\* first; for /api/incidents M is 180000.
C18_FreshnessBoundary ==
    (/\ call.fn = "handleApiRequest"
     /\ call.cachedResponse # None
     /\ "x-cached-at" \in DOMAIN call.cachedResponse.headers) =>
        LET path == call.args[1]
            t == call.args[2]
            T == ParseInt(call.cachedResponse.headers["x-cached-at"])
            M == RouteConfig(path).maxAge
        IN  /\ path = <<"api", "incidents">> => M = 180000
            /\ IF t < T + M
               THEN /\ call.fetches = 0
                    /\ call.result.status = call.cachedResponse.status
                    /\ call.result.body = call.cachedResponse.body
               ELSE call.fetches = 1

\* The list of incidents captured at 0 and read from the cache at 179999.
C18_Witness ==
    /\ call.fn = "handleApiRequest"
    /\ call.args[1] = <<"api", "incidents">>
    /\ call.args[2] = 179999
    /\ call.cachedResponse # None
    /\ call.cachedResponse.headers["x-cached-at"] = "0"
    /\ call.fetches = 0
    /\ call.result.body = call.cachedResponse.body
    /\ call.result.headers["X-Served-From"] = "cache"

\* C19: when the network leg of handleApiRequest fails (the fetch throws or
\* the timeout aborts it), the caller receives the cached copy if there is
\* one, whatever its age, and otherwise a synthesized 503 JSON response with
\* offline: true; the handler answers with a response in each case, and the
\* failed attempt leaves the cache as it was.
C19_FailedNetworkFallsBack ==
    [][(/\ call' # call
        /\ call'.fn = "handleApiRequest"
        /\ call'.fetches = 1
        /\ call'.args[3].kind \in {"throw", "abort"}) =>
            LET path == call'.args[1]
            IN  /\ cache' = cache
                /\ call'.result.kind = "response"
                /\ IF path \in DOMAIN cache.entries
                   THEN /\ call'.result.status = cache.entries[path].status
                        /\ call'.result.body = cache.entries[path].body
                   ELSE /\ call'.result.status = 503
                        /\ call'.result.body.offline
                        /\ call'.result.headers["Content-Type"] = "application/json"
    ]_vars

\* A read whose network leg timed out, answered with the stale copy.
C19_Witness ==
    /\ call.fn = "handleApiRequest"
    /\ call.fetches = 1
    /\ call.args[2] = 180001
    /\ call.args[3] = Abort
    /\ call.cachedResponse # None
    /\ "x-cached-at" \in DOMAIN call.cachedResponse.headers
    /\ call.cachedResponse.headers["x-cached-at"] = "0"
    /\ call.result.body = call.cachedResponse.body
    /\ call.result.status = 200
    /\ call.result.headers["X-Cache-Age"] = "Infinity"

\* C20: every entry of the API cache carries an x-cached-at capture time,
\* after any sequence of API reads, background refreshes of high-priority
\* routes and periodic refreshes.
C20_EveryEntryStamped ==
    \A path \in DOMAIN cache.entries :
        "x-cached-at" \in DOMAIN cache.entries[path].headers

\* C21: the API cache never holds more than MAX_API_CACHE_ITEMS entries
\* once an operation that stores into it (a network read in
\* handleApiRequest, a background refresh, a periodic refresh) has completed.
C21_CacheWithinCap == Len(cache.keys) <= MAX_API_CACHE_ITEMS

\* C22: the fetch listener hands a request to handleMutationRequest if and
\* only if its method is none of GET, HEAD, OPTIONS and its URL is an
\* http(s) URL under the API prefix.
C22_MutationIffNotSafeReadOnApi ==
    Returned("FetchListener") =>
        LET request == call.args[1]
        IN  call.result = Str("handleMutationRequest")
            <=> /\ request.method \notin {"GET", "HEAD", "OPTIONS"}
                /\ StartsWithHttp(request.url)
                /\ PathnameStartsWithApi(request.url)

\* C23: once handleMutationRequest has persisted the record of a request it
\* queues, the caller receives the 202 response, whether the host has no
\* background sync, the registration succeeds or the registration fails.
C23_PersistedMeansAnswered ==
    (/\ call.fn = "handleMutationRequest"
     /\ ~DirectAnswered(call.args[2], call.args[3])
     /\ call.args[4] = "success") =>
        /\ call.result.kind = "response"
        /\ call.result.status = 202

-----------------------------------------------------------------------------
(* Properties of single steps of a sync pass.                              *)

\* The step replays the current item of pass tr: a replay request is the
\* next event of the pass.
ReplayStep(tr) ==
    /\ pass[tr].pc \in {"loop", "replay"}
    /\ Len(pass'[tr].events) > Len(pass[tr].events)
    /\ pass'[tr].events[Len(pass[tr].events) + 1].type = "replay"

\* The item the step handles.
Item(tr) == pass[tr].requests[pass[tr].i]

\* What the replay of the step brought.
OutcomeOf(tr) == pass'[tr].events[Len(pass[tr].events) + 1].outcome

\* What the step emitted after the replay request.
EmittedAfterReplay(tr) ==
    SubSeq(pass'[tr].events, Len(pass[tr].events) + 2, Len(pass'[tr].events))

\* The counters after the step are the counters before it plus the deltas.
Counted(tr, synced, failed, conflicts) ==
    pass'[tr].results = [synced |-> pass[tr].results.synced + synced,
                         failed |-> pass[tr].results.failed + failed,
                         conflicts |-> pass[tr].results.conflicts + conflicts]

\* The step deleted the record of id and nothing else.
DeletedOnly(id) ==
    /\ DOMAIN store' = DOMAIN store \ {id}
    /\ \A k \in DOMAIN store' : store'[k] = store[k]

\* C24: when a replay returns 2xx or 409, the pass deletes that record,
\* increases synced by exactly one, leaves failed and conflicts as they are,
\* and posts one SYNC_SUCCESS message carrying the mutation's id and
\* entityType; a 409 is handled as a 2xx is.
C24_SuccessOr409Settles ==
    [][\A tr \in Triggers :
        (/\ ReplayStep(tr)
         /\ OutcomeOf(tr).kind = "response"
         /\ OutcomeOf(tr).status \in (200..299) \cup {409}) =>
            /\ DeletedOnly(Item(tr).id)
            /\ Counted(tr, 1, 0, 0)
            /\ EmittedAfterReplay(tr) =
                    <<[type |-> "postMessage",
                       data |-> [type |-> "SYNC_SUCCESS",
                                 requestId |-> Item(tr).id,
                                 entityType |-> Item(tr).entityType]]>>
    ]_vars

\* A pass that has had a replay answered 409: the record is gone, the item
\* is counted as synced and the success message is its last event.
C24_Witness ==
    \E tr \in Triggers :
        /\ Running(tr)
        /\ pass[tr].results.synced = 1
        /\ pass[tr].results.failed = 0
        /\ Len(pass[tr].events) >= 2
        /\ LET n == Len(pass[tr].events)
           IN  /\ pass[tr].events[n].type = "postMessage"
               /\ pass[tr].events[n].data.type = "SYNC_SUCCESS"
               /\ pass[tr].events[n - 1].type = "replay"
               /\ pass[tr].events[n - 1].outcome = Response(409)
               /\ pass[tr].events[n - 1].id = pass[tr].events[n].data.requestId
               /\ pass[tr].events[n - 1].id \notin DOMAIN store

\* C25: when a replay returns a 4xx status other than 409, the pass deletes
\* the record, so that it is never replayed again, increases failed by
\* exactly one, and posts one SYNC_FAILED message carrying the mutation's id
\* and the server's status.
C25_RejectionDeletesAndReports ==
    [][\A tr \in Triggers :
        (/\ ReplayStep(tr)
         /\ OutcomeOf(tr).kind = "response"
         /\ OutcomeOf(tr).status \in (400..499) \ {409}) =>
            /\ DeletedOnly(Item(tr).id)
            /\ Counted(tr, 0, 1, 0)
            /\ Len(EmittedAfterReplay(tr)) = 1
            /\ LET message == EmittedAfterReplay(tr)[1]
               IN  /\ message.type = "postMessage"
                   /\ message.data.type = "SYNC_FAILED"
                   /\ message.data.requestId = Item(tr).id
                   /\ message.data.error =
                        "Server returned " \o ToString(OutcomeOf(tr).status)
    ]_vars

\* A pass that has had a replay answered 400: the record is gone, the item
\* is counted as failed and the failure message is its last event.
C25_Witness ==
    \E tr \in Triggers :
        /\ Running(tr)
        /\ pass[tr].results.failed = 1
        /\ pass[tr].results.synced = 0
        /\ Len(pass[tr].events) >= 2
        /\ LET n == Len(pass[tr].events)
           IN  /\ pass[tr].events[n].type = "postMessage"
               /\ pass[tr].events[n].data.type = "SYNC_FAILED"
               /\ pass[tr].events[n].data.error = "Server returned 400"
               /\ pass[tr].events[n - 1].type = "replay"
               /\ pass[tr].events[n - 1].outcome = Response(400)
               /\ pass[tr].events[n - 1].id = pass[tr].events[n].data.requestId
               /\ pass[tr].events[n - 1].id \notin DOMAIN store

\* C26: when a replay returns a 5xx status, the pass deletes no record,
\* increases failed by exactly one, and writes the record back with
\* retryCount increased by one if and only if the increased count is below
\* 5; when it is not written back the stored record keeps its previous
\* retryCount.
C26_ServerErrorRetriesBelowCeiling ==
    [][\A tr \in Triggers :
        (/\ ReplayStep(tr)
         /\ OutcomeOf(tr).kind = "response"
         /\ OutcomeOf(tr).status >= 500) =>
            /\ DOMAIN store' = DOMAIN store
            /\ Counted(tr, 0, 1, 0)
            /\ EmittedAfterReplay(tr) = <<>>
            /\ \A k \in DOMAIN store : k # Item(tr).id => store'[k] = store[k]
            /\ Item(tr).id \in DOMAIN store =>
                    IF Item(tr).retryCount + 1 < 5
                    THEN store'[Item(tr).id] =
                            [Item(tr) EXCEPT !.retryCount = @ + 1]
                    ELSE store'[Item(tr).id] = store[Item(tr).id]
    ]_vars

\* The fifth server error for one mutation: the stored record stays at
\* retryCount 4.
C26_Witness ==
    \E id \in DOMAIN store :
        /\ id \in DOMAIN replays
        /\ replays[id] = 5
        /\ store[id].retryCount = 4
        /\ \E tr \in Triggers :
                /\ Running(tr)
                /\ pass[tr].results.failed = 1
                /\ pass[tr].events[Len(pass[tr].events)].type = "replay"
                /\ pass[tr].events[Len(pass[tr].events)].id = id

\* The step ends in the catch block of pass tr: the error log is the last
\* event of the step.
CaughtStep(tr) ==
    /\ pass[tr].pc \in {"loop", "replay"}
    /\ Len(pass'[tr].events) > Len(pass[tr].events)
    /\ pass'[tr].events[Len(pass'[tr].events)].type = "console.error"

\* C27: when the replay, or the conflict resolution before it, throws, the
\* pass counts the item as failed, deletes nothing and leaves the store as
\* it is (the increased retryCount exists only in memory), and goes on with
\* the next queued mutation.
C27_ThrowLeavesStoreAndContinues ==
    [][\A tr \in Triggers :
        CaughtStep(tr) =>
            /\ store' = store
            /\ Counted(tr, 0, 1, 0)
            /\ pass'[tr].requests[pass[tr].i].retryCount = Item(tr).retryCount + 1
            /\ pass'[tr].i = pass[tr].i + 1
            /\ pass'[tr].pc = IF pass[tr].i < Len(pass[tr].requests)
                              THEN "loop" ELSE "summary"
    ]_vars

\* The resolution of the first of two queued mutations threw, after a probe
\* that found a newer server copy: its record is in the store with
\* retryCount 0 and the pass is at the second one.
C27_Witness ==
    \E tr \in Triggers :
        /\ pass[tr].pc = "loop"
        /\ pass[tr].i = 2
        /\ Len(pass[tr].requests) = 2
        /\ pass[tr].results = [synced |-> 0, failed |-> 1, conflicts |-> 0]
        /\ pass[tr].requests[1].retryCount = 1
        /\ pass[tr].requests[1].id \in DOMAIN store
        /\ store[pass[tr].requests[1].id].retryCount = 0
        /\ pass[tr].events[Len(pass[tr].events)].type = "console.error"
        /\ pass[tr].events[Len(pass[tr].events) - 1].type = "probe"

\* C28: each time a sync pass skips a mutation because of a conflict
\* resolution, it posts a message to the application that identifies the
\* skipped mutation.
C28_SkipIsPosted ==
    \A tr \in Triggers :
        Running(tr) =>
            \A k \in 1..Len(pass[tr].conflictedRequests) :
                \E n \in 1..Len(pass[tr].events) :
                    /\ pass[tr].events[n].type = "postMessage"
                    /\ pass[tr].events[n].data.requestId = pass[tr].conflictedRequests[k]

\* The summary notifications among the events of pass tr.
Notifications(tr) ==
    {n \in 1..Len(pass[tr].events) : pass[tr].events[n].type = "showNotification"}

\* C29: a sync pass raises the summary notification at most once, after all
\* items are processed, and it raises it if and only if its synced counter or
\* its conflicts counter is greater than zero: a pass whose items all failed,
\* or that found an empty queue, raises none.
C29_OneSummaryIffSyncedOrConflicts ==
    \A tr \in Triggers :
        /\ Running(tr) => Notifications(tr) = {}
        /\ pass[tr].pc = "done" =>
                Cardinality(Notifications(tr)) =
                    IF pass[tr].results.synced > 0 \/ pass[tr].results.conflicts > 0
                    THEN 1 ELSE 0

\* A returned pass that skipped one mutation, had a failure and synced
\* none, and raised the summary.
C29_Witness ==
    \E tr \in Triggers :
        /\ pass[tr].pc = "done"
        /\ pass[tr].results = [synced |-> 0, failed |-> 1, conflicts |-> 1]
        /\ Cardinality(Notifications(tr)) = 1
        /\ \E n \in Notifications(tr) :
                pass[tr].events[n].body = "1 conflicts resolved."

\* The step skips the current item of pass tr after a conflict resolution.
SkipStep(tr) ==
    /\ pass[tr].pc = "loop"
    /\ pass'[tr].results.conflicts = pass[tr].results.conflicts + 1
    /\ pass'[tr].conflictedRequests = Append(pass[tr].conflictedRequests, Item(tr).id)

\* C30: a record leaves the queue only when its replay returned 2xx or 409,
\* when its replay returned an error status below 500, or when its conflict
\* resolution returned skip; no other operation (a queued write, a replay
\* answered 5xx, a replay that throws, GET_PENDING_SYNC_COUNT, CLEAR_CACHE,
\* the periodic refresh, an API read) removes a record.
C30_RemovedOnlyBySettlingRejectionOrSkip ==
    [][\A id \in DOMAIN store \ DOMAIN store' :
        \E tr \in Triggers :
            /\ pass[tr].pc \in {"loop", "replay"}
            /\ Item(tr).id = id
            /\ \/ SkipStep(tr)
               \/ /\ ReplayStep(tr)
                  /\ OutcomeOf(tr).kind = "response"
                  /\ \/ OutcomeOf(tr).status \in (200..299) \cup {409}
                     \/ OutcomeOf(tr).status \in 400..499
    ]_vars

\* One of two queued mutations was skipped by the pass and is gone; the
\* other is still queued after a CLEAR_CACHE.
C30_Witness ==
    /\ call.fn = "CLEAR_CACHE"
    /\ Len(acks) = 2
    /\ Cardinality(DOMAIN store) = 1
    /\ \E tr \in Triggers :
            /\ Running(tr)
            /\ Len(pass[tr].conflictedRequests) = 1
            /\ pass[tr].conflictedRequests[1] \notin DOMAIN store
            /\ pass[tr].results = [synced |-> 0, failed |-> 1, conflicts |-> 1]

\* C31: a step of refreshCriticalData and a step of CLEAR_CACHE leave the
\* pendingRequests store as it was; after CLEAR_CACHE the API cache and the
\* dynamic cache are empty and the static and the image cache hold what
\* they held.
C31_RefreshAndClearKeepQueue ==
    [][/\ (\E nets \in ClearRefreshes : RefreshCriticalData(nets, now))
            => store' = store
       /\ ClearCache =>
            /\ store' = store
            /\ DOMAIN cache'.entries = {} /\ cache'.keys = <<>>
            /\ cache'.dynamic = {}
            /\ cache'.static = cache.static
            /\ cache'.image = cache.image
    ]_vars

\* CLEAR_CACHE was answered with two mutations queued; the installed static
\* files and a cached image are still held, the API and dynamic caches are
\* empty.
C31_Witness ==
    /\ call.fn = "CLEAR_CACHE"
    /\ Cardinality(DOMAIN store) = 2
    /\ cache.static # {}
    /\ cache.image # {}
    /\ cache.dynamic = {}
    /\ DOMAIN cache.entries = {}

\* C32: with overlapping sync passes, a record that one pass has deleted
\* after a replay the server accepted is not written back by the other, and
\* once no pass is running a mutation the server accepted is not in the
\* pendingRequests store.
C32_AcceptedStaysOutUnderOverlap ==
    /\ \A k \in 1..Len(accepted) :
            NoPassRunning => accepted[k] \notin DOMAIN store
    /\ \A k \in 1..Len(accepted), tr \in Triggers :
            (accepted[k] \in DOMAIN store /\ Running(tr))
                => \A e \in 1..Len(pass[tr].events) :
                    ~ /\ pass[tr].events[e].type = "replay"
                      /\ pass[tr].events[e].id = accepted[k]
                      /\ ServerError(pass[tr].events[e].outcome)

\* The ids of the records a pass loaded at its start.
LoadedIds(tr) == {pass[tr].requests[j].id : j \in 1..Len(pass[tr].requests)}

\* C33: while a sync pass is running, a record that is in the store and was
\* not loaded by the pass (it was queued after the pass started) is left in
\* the store, unchanged, by every step, and the pass makes no probe and no
\* replay call for it; so it is still queued when the pass ends.
C33_QueuedDuringPassIsKept ==
    [][\A tr \in Triggers :
        Running(tr) =>
            \A id \in DOMAIN store \ LoadedIds(tr) :
                /\ id \in DOMAIN store'
                /\ store'[id] = store[id]
                /\ \A e \in 1..Len(pass'[tr].events) :
                        "id" \in DOMAIN pass'[tr].events[e]
                            => pass'[tr].events[e].id # id
    ]_vars

\* A pass that has replayed and settled the record it loaded is at its end,
\* and a mutation queued while it ran is in the store, never replayed.
C33_Witness ==
    \E tr \in Triggers :
        /\ pass[tr].pc = "summary"
        /\ pass[tr].results.synced = 1
        /\ LoadedIds(tr) \cap DOMAIN store = {}
        /\ \E id \in DOMAIN store :
            /\ id \in UsedIds
            /\ id \notin LoadedIds(tr)
            /\ id \notin DOMAIN replays
            /\ store[id].retryCount = 0

\* C36: when sync passes keep being triggered and, from some point on, every
\* replay is answered 2xx and no probe reports a conflict, a queue that
\* holds a record, also one whose replays have failed RetryCeiling times, is
\* eventually empty, each queued mutation having been settled.
C36_QueueEventuallyEmpty ==
    (DOMAIN store # {}) ~> (DOMAIN store = {} /\ UsedIds \subseteq settled)

\* A mutation whose first RetryCeiling replays failed with 5xx was accepted
\* at the next replay and is out of the queue.
C36_Witness ==
    \E id \in UsedIds :
        /\ id \in DOMAIN replays
        /\ replays[id] = RetryCeiling + 1
        /\ Len(accepted) = 1 /\ accepted[1] = id
        /\ DOMAIN store = {}
        /\ \E tr \in Triggers : pass[tr].pc = "summary" /\ pass[tr].requests[1].retryCount = RetryCeiling - 1

\* C34: every record in the pendingRequests store has a retryCount from 0
\* to RetryCeiling - 1, whatever replays answered 5xx or thrown came
\* before.
C34_StoredCountBelowCeiling ==
    \A id \in DOMAIN store : store[id].retryCount \in 0..(RetryCeiling - 1)

\* The replays of a record have failed more than RetryCeiling times, the
\* last one a 5xx met with the stored count one below the ceiling; the
\* record is stored with that count.
C34_Witness ==
    \E tr \in Triggers :
        /\ pass[tr].pc = "summary"
        /\ Len(pass[tr].requests) = 1
        /\ pass[tr].requests[1].retryCount = RetryCeiling
        /\ LET id == pass[tr].requests[1].id
           IN  /\ id \in DOMAIN store
               /\ store[id].retryCount = RetryCeiling - 1
               /\ id \in DOMAIN replays
               /\ replays[id] > RetryCeiling
               /\ \E e \in 1..Len(pass[tr].events) :
                    /\ pass[tr].events[e].type = "replay"
                    /\ ServerError(pass[tr].events[e].outcome)

\* C35: in a running sync pass synced + failed + conflicts equals the number
\* of loaded records the loop has gone through, so at the end of the pass it
\* equals the number of records loaded; and the pass has made at most one
\* replay call and at most one probe for each loaded record.
C35_CountersAddUpToLoaded ==
    \A tr \in Triggers :
        Running(tr) =>
            /\ pass[tr].results.synced + pass[tr].results.failed
                    + pass[tr].results.conflicts = Cardinality(Handled(tr))
            /\ pass[tr].pc = "summary" => Cardinality(Handled(tr)) = Len(pass[tr].requests)
            /\ \A id \in LoadedIds(tr) :
                /\ Cardinality(Calls(tr, "replay", id)) <= 1
                /\ Cardinality(Calls(tr, "probe", id)) <= 1

\* A pass over two records is at its end: one was probed and skipped, the
\* replay of the other threw.
C35_Witness ==
    \E tr \in Triggers :
        /\ pass[tr].pc = "summary"
        /\ Len(pass[tr].requests) = 2
        /\ pass[tr].results = [synced |-> 0, failed |-> 1, conflicts |-> 1]
        /\ \E id \in LoadedIds(tr) :
            /\ Cardinality(Calls(tr, "probe", id)) = 1
            /\ Calls(tr, "replay", id) = {}
        /\ \E id \in LoadedIds(tr) :
            /\ Cardinality(Calls(tr, "replay", id)) = 1
            /\ id \in DOMAIN store

\* C37: in a sync pass, a replay of a merge-policy mutation made after the
\* pass's probe found a conflict carries, in every field the user's queued
\* edit did not set, the value of the server copy that probe fetched; also
\* when an earlier pass merged the mutation and its replay ended in 5xx.
C37_MergedReplayCarriesProbedServerValues ==
    \A tr \in Triggers :
        Running(tr) =>
            \A j \in 1..Len(pass[tr].requests) :
                LET rec == pass[tr].requests[j]
                IN  rec.conflictStrategy = "merge" =>
                    \A p \in Calls(tr, "probe", rec.id), r \in Calls(tr, "replay", rec.id) :
                        LET conflict == checkForConflict(rec, pass[tr].events[p].outcome)
                            sent == pass[tr].events[r].body
                        IN  conflict.hasConflict =>
                            \A f \in DOMAIN conflict.serverData.v
                                        \ DOMAIN StoredBody(rec.id).v :
                                /\ f \in DOMAIN sent.v
                                /\ sent.v[f] = JsonStringify(conflict.serverData).v[f]

\* C38: every response in the API cache has an ok status; a step of
\* handleApiRequest, of fetchAndCache or of refreshCriticalData removes no
\* entry; and when the network leg of handleApiRequest brings a response
\* that is not ok, the caller gets that response as it came and the cache
\* keeps its entries as they were.
C38_OnlyOkResponsesCached ==
    [][/\ \A k \in DOMAIN cache'.entries : cache'.entries[k].status \in 200..299
       /\ DOMAIN cache.entries \subseteq DOMAIN cache'.entries
       /\ (/\ call' # call
           /\ call'.fn = "handleApiRequest"
           /\ call'.fetches = 1
           /\ call'.args[3].kind = "response"
           /\ call'.args[3].status \notin 200..299)
            => /\ call'.result = call'.args[3]
               /\ cache'.entries = cache.entries
               /\ cache'.keys = cache.keys
    ]_vars

\* A read of a stale entry was answered 500 by the network: the caller got
\* the 500 response and the entry cached before is still the cached one.
C38_Witness ==
    /\ call.fn = "handleApiRequest"
    /\ call.fetches = 1
    /\ call.args[3].kind = "response"
    /\ call.args[3].status = 500
    /\ call.result = call.args[3]
    /\ call.cachedResponse # None
    /\ call.args[1] \in DOMAIN cache.entries
    /\ cache.entries[call.args[1]] = call.cachedResponse
    /\ call.cachedResponse.status = 200

=============================================================================
